---------------------------- MODULE Spec2Model ----------------------------
(***************************************************************************)
(* KrediPlus: the credit simulator of the frontend (CreditSimulator, its   *)
(* estimatedPayment and the official simulation fetched from the backend). *)
(*                                                                         *)
(* A JavaScript number is modelled as an exact rational: a signed          *)
(* numerator over a positive denominator, both of arbitrary size, so the   *)
(* arithmetic of the model is the arithmetic of the reals on the inputs of *)
(* the model.  IEEE-754 rounding is not modelled; an equality of two       *)
(* numbers below is an equality of reals.                                  *)
(***************************************************************************)
EXTENDS Integers, Sequences, FiniteSets, TLC

(***************************************************************************)
(* Natural numbers of arbitrary size: little-endian sequences of limbs in  *)
(* base LimbBase without a leading (last) zero limb; <<>> is zero.         *)
(***************************************************************************)
LimbBase == 100 * 100

\* TLC evaluates an operand where it is first used.  An operator below that
\* hands an operand on to further operators is a CASE on the operand's being
\* equal to itself, which evaluates the operand before the operator's body.

Max(S) == CHOOSE x \in S : \A y \in S : y <= x

Limb(a, i) == IF i <= Len(a) THEN a[i] ELSE 0

BNorm(a) ==
  LET nonzero == {i \in 1..Len(a) : a[i] # 0}
  IN IF nonzero = {} THEN <<>> ELSE SubSeq(a, 1, Max(nonzero))

RECURSIVE BOf(_)
BOf(i) == IF i = 0 THEN <<>> ELSE <<i % LimbBase>> \o BOf(i \div LimbBase)

RECURSIVE Zeros(_)
Zeros(k) ==
  IF k = 0 THEN <<>>
  ELSE LET half == Zeros(k \div 2)
       IN IF k % 2 = 0 THEN half \o half ELSE half \o half \o <<0>>

\* a * LimbBase^k
BShift(a, k) == IF a = <<>> THEN <<>> ELSE Zeros(k) \o a

\* The carry of an addition, the borrow of a subtraction and the carry of a
\* multiplication by a limb run along the limbs: limb i of the result and the
\* carry out of it, for the carry c into it.  For "mul", b is the limb.
BLimbOp(op, a, b, i, c) ==
  CASE op = "add" ->
         [s |-> <<(Limb(a, i) + Limb(b, i) + c) % LimbBase>>,
          c |-> (Limb(a, i) + Limb(b, i) + c) \div LimbBase]
    [] op = "sub" ->
         IF Limb(a, i) - Limb(b, i) - c < 0
         THEN [s |-> <<Limb(a, i) - Limb(b, i) - c + LimbBase>>, c |-> 1]
         ELSE [s |-> <<Limb(a, i) - Limb(b, i) - c>>, c |-> 0]
    [] op = "mul" ->
         [s |-> <<(a[i] * b + c) % LimbBase>>, c |-> (a[i] * b + c) \div LimbBase]

BJoin(low, high) == CASE high = high -> [s |-> low.s \o high.s, c |-> high.c]

\* the limbs lo..hi of the result and the carry out of them, by halving the
\* range, the low half first
RECURSIVE BRange(_, _, _, _, _, _)
BRangeHigh(op, a, b, lo, hi, low) ==
  CASE low = low -> BJoin(low, BRange(op, a, b, lo, hi, low.c))

BRange(op, a, b, lo, hi, c) ==
  IF lo = hi THEN BLimbOp(op, a, b, lo, c)
  ELSE BRangeHigh(op, a, b, (lo + hi) \div 2 + 1, hi,
                  BRange(op, a, b, lo, (lo + hi) \div 2, c))

BCarried(r) == CASE r = r -> IF r.c = 0 THEN r.s ELSE Append(r.s, r.c)

BAdd(a, b) ==
  CASE a = a /\ b = b ->
    IF a = <<>> THEN b
    ELSE IF b = <<>> THEN a
    ELSE BCarried(BRange("add", a, b, 1, IF Len(a) > Len(b) THEN Len(a) ELSE Len(b), 0))

\* a - b for a >= b
BSub(a, b) ==
  CASE a = a /\ b = b ->
    IF b = <<>> THEN a ELSE BNorm(BRange("sub", a, b, 1, Len(a), 0).s)

\* a * d for a limb d
BMulLimb(a, d) ==
  CASE a = a /\ d = d ->
    IF a = <<>> \/ d = 0 THEN <<>> ELSE BCarried(BRange("mul", a, d, 1, Len(a), 0))

\* a times the number whose limbs are the limbs lo..hi of b, times
\* LimbBase^(lo - 1)
RECURSIVE BMulRange(_, _, _, _)
BMulRange(a, b, lo, hi) ==
  IF lo = hi THEN BShift(BMulLimb(a, b[lo]), lo - 1)
  ELSE BAdd(BMulRange(a, b, lo, (lo + hi) \div 2),
            BMulRange(a, b, (lo + hi) \div 2 + 1, hi))

BMul(a, b) ==
  CASE a = a /\ b = b ->
    IF a = <<>> \/ b = <<>> THEN <<>> ELSE BMulRange(a, b, 1, Len(b))

\* -1, 0, 1 as a < b, a = b, a > b
BCmp(a, b) ==
  CASE a = a /\ b = b ->
    IF Len(a) < Len(b) THEN -1
    ELSE IF Len(a) > Len(b) THEN 1
    ELSE LET differ == {i \in 1..Len(a) : a[i] # b[i]}
         IN IF differ = {} THEN 0
            ELSE IF a[Max(differ)] < b[Max(differ)] THEN -1 ELSE 1

\* the largest k in 0..9 with (base + k * unit) * b <= cur
BQuotStep(cur, b, base, unit) ==
  CASE base = base ->
    base + unit * Cardinality({k \in 1..9 : BCmp(BMulLimb(b, base + k * unit), cur) <= 0})

\* the largest d in 0..LimbBase - 1 with d * b <= cur, a decimal digit of d
\* at a time
BQuotDigit(cur, b) ==
  BQuotStep(cur, b, BQuotStep(cur, b, BQuotStep(cur, b, BQuotStep(cur, b, 0, 1000), 100), 10), 1)

BDivDigit(cur, b, d) == CASE d = d -> [q |-> <<d>>, r |-> BSub(cur, BMulLimb(b, d))]

\* the quotient limb and the remainder of (rem * LimbBase + limb) by b
BDivLimb(b, cur) ==
  CASE cur = cur ->
    IF BCmp(cur, b) < 0 THEN [q |-> <<0>>, r |-> cur]
    ELSE BDivDigit(cur, b, BQuotDigit(cur, b))

BDivJoin(low, high) == CASE low = low -> [q |-> low.q \o high.q, r |-> low.r]

\* the quotient limbs lo..hi of (rem * LimbBase^(hi - lo + 1) + the limbs
\* lo..hi of a) by b > 0, for rem < b, and the remainder, by halving the
\* range, the high half first
RECURSIVE BDivRange(_, _, _, _, _)
BDivRangeLow(a, b, lo, hi, high) ==
  CASE high = high -> BDivJoin(BDivRange(a, b, lo, hi, high.r), high)

BDivRange(a, b, lo, hi, rem) ==
  IF lo = hi THEN BDivLimb(b, BNorm(<<a[lo]>> \o rem))
  ELSE BDivRangeLow(a, b, lo, (lo + hi) \div 2,
                    BDivRange(a, b, (lo + hi) \div 2 + 1, hi, rem))

BDivResult(result) == CASE result = result -> [q |-> BNorm(result.q), r |-> result.r]

\* the quotient has at most Len(a) - Len(b) + 1 limbs: the limbs of a above
\* them are a remainder smaller than b
BDivMod(a, b) ==
  CASE a = a /\ b = b ->
    IF Len(a) < Len(b) THEN [q |-> <<>>, r |-> a]
    ELSE BDivResult(BDivRange(a, b, 1, Len(a) - Len(b) + 1,
                              BNorm(SubSeq(a, Len(a) - Len(b) + 2, Len(a)))))

(***************************************************************************)
(* Integers of arbitrary size: a sign s in {-1, 0, 1} and a magnitude m.   *)
(***************************************************************************)
ZMake(s, m) == CASE m = m -> IF m = <<>> THEN [s |-> 0, m |-> <<>>] ELSE [s |-> s, m |-> m]

ZOf(i) == IF i < 0 THEN ZMake(-1, BOf(-i)) ELSE ZMake(1, BOf(i))

ZNeg(x) == CASE x = x -> [s |-> -x.s, m |-> x.m]

ZMul(x, y) == CASE x = x /\ y = y -> ZMake(x.s * y.s, BMul(x.m, y.m))

ZAdd(x, y) ==
  CASE x = x /\ y = y ->
    IF x.s = 0 THEN y
    ELSE IF y.s = 0 THEN x
    ELSE IF x.s = y.s THEN ZMake(x.s, BAdd(x.m, y.m))
    ELSE IF BCmp(x.m, y.m) >= 0 THEN ZMake(x.s, BSub(x.m, y.m))
    ELSE ZMake(y.s, BSub(y.m, x.m))

ZSub(x, y) == ZAdd(x, ZNeg(y))

ZFloorResult(s, qr) ==
  CASE qr = qr ->
    IF s >= 0 THEN ZMake(1, qr.q)
    ELSE IF qr.r = <<>> THEN ZMake(-1, qr.q)
    ELSE ZMake(-1, BAdd(qr.q, BOf(1)))

\* floor(x / b) for b > 0
ZFloorDiv(x, b) == CASE x = x -> ZFloorResult(x.s, BDivMod(x.m, b))

(***************************************************************************)
(* Numbers: n / d with d > 0.  Two records may denote one number, so       *)
(* numbers are compared with REq, RLt, RLe, never with =.                  *)
(***************************************************************************)
RECURSIVE Gcd(_, _)
Gcd(i, j) == IF j = 0 THEN i ELSE Gcd(j, i % j)

\* the value of a natural number of at most two limbs
BSmall(a) == Limb(a, 1) + LimbBase * Limb(a, 2)

RReduced(s, i, j, g) == [n |-> ZMake(s, BOf(i \div g)), d |-> BOf(j \div g)]

\* n / d, in lowest terms when both n and d have at most two limbs
RMake(n, d) ==
  CASE n = n /\ d = d ->
    IF Len(n.m) <= 2 /\ Len(d) <= 2 /\ n.s # 0
    THEN RReduced(n.s, BSmall(n.m), BSmall(d), Gcd(BSmall(n.m), BSmall(d)))
    ELSE [n |-> n, d |-> d]

RInt(i) == RMake(ZOf(i), BOf(1))

RFrac(i, j) == RMake(ZOf(i), BOf(j))

RSign(x) == x.n.s

RNeg(x) == CASE x = x -> [n |-> ZNeg(x.n), d |-> x.d]

RAdd(x, y) ==
  CASE x = x /\ y = y ->
    RMake(ZAdd(ZMul(x.n, ZMake(1, y.d)), ZMul(y.n, ZMake(1, x.d))), BMul(x.d, y.d))

RSub(x, y) == RAdd(x, RNeg(y))

RMul(x, y) == CASE x = x /\ y = y -> RMake(ZMul(x.n, y.n), BMul(x.d, y.d))

\* x / y for y # 0
RDiv(x, y) ==
  CASE x = x /\ y = y ->
    RMake(ZMake(x.n.s * y.n.s, BMul(x.n.m, y.d)), BMul(x.d, y.n.m))

\* the sign of x - y
RCmp(x, y) ==
  CASE x = x /\ y = y ->
    ZSub(ZMul(x.n, ZMake(1, y.d)), ZMul(y.n, ZMake(1, x.d))).s

REq(x, y) == RCmp(x, y) = 0
RLt(x, y) == RCmp(x, y) < 0
RLe(x, y) == RCmp(x, y) <= 0

\* x ^ k for k >= 0, by squaring x ^ (k \div 2)
RECURSIVE RPowNat(_, _)
RPowStep(x, k, half) ==
  CASE half = half -> IF k % 2 = 0 THEN RMul(half, half) ELSE RMul(RMul(half, half), x)

RPowNat(x, k) == IF k = 0 THEN RInt(1) ELSE RPowStep(x, k, RPowNat(x, k \div 2))

(***************************************************************************)
(* Strings are sequences of one-character strings.                         *)
(***************************************************************************)
DigitChar == <<"0", "1", "2", "3", "4", "5", "6", "7", "8", "9">>

IsDigit(c) == \E i \in 1..10 : DigitChar[i] = c

DigitVal(c) == (CHOOSE i \in 1..10 : DigitChar[i] = c) - 1

RECURSIVE Digits(_)
Digits(i) ==
  IF i < 10 THEN <<DigitChar[i + 1]>>
  ELSE Digits(i \div 10) \o <<DigitChar[(i % 10) + 1]>>

\* Number.prototype.toString of an integer
ToStr(i) == IF i < 0 THEN <<"-">> \o Digits(-i) ELSE Digits(i)

NaNStr == <<"N", "a", "N">>

RECURSIVE DigitsVal(_)
DigitsVal(s) ==
  IF s = <<>> THEN 0 ELSE 10 * DigitsVal(SubSeq(s, 1, Len(s) - 1)) + DigitVal(s[Len(s)])

AllDigits(s) == s # <<>> /\ \A i \in 1..Len(s) : IsDigit(s[i])

\* Number(s) of the empty string, of a decimal integer literal and of any
\* other text of the model (NaN)
NumberOf(s) ==
  IF s = <<>> THEN [nan |-> FALSE, v |-> 0]
  ELSE IF AllDigits(s) THEN [nan |-> FALSE, v |-> DigitsVal(s)]
  ELSE IF Head(s) = "-" /\ AllDigits(Tail(s)) THEN [nan |-> FALSE, v |-> -DigitsVal(Tail(s))]
  ELSE [nan |-> TRUE, v |-> 0]

\* Number(s) || fallback
NumberOr(s, fallback) ==
  LET x == NumberOf(s) IN IF x.nan \/ x.v = 0 THEN fallback ELSE x.v

\* x || 0 for a number x that is not NaN
OrZero(x) == IF RSign(x) = 0 THEN RInt(0) ELSE x

\* Math.pow(x, e) for an integer e, x # 0
MathPow(x, e) == IF e >= 0 THEN RPowNat(x, e) ELSE RDiv(RInt(1), RPowNat(x, -e))

\* Math.round(x): floor(x + 1/2), an integer of arbitrary size
MathRound(x) ==
  CASE x = x -> ZFloorDiv(ZAdd(ZMul(ZOf(2), x.n), ZMake(1, x.d)), BMul(BOf(2), x.d))

(***************************************************************************)
(* The texts of the configuration form and their conversions.              *)
(***************************************************************************)
RECURSIVE DigitPrefix(_)
DigitPrefix(s) ==
  IF s # <<>> /\ IsDigit(Head(s)) THEN <<Head(s)>> \o DigitPrefix(Tail(s)) ELSE <<>>

RECURSIVE Pow10(_)
Pow10(k) == IF k = 0 THEN 1 ELSE 10 * Pow10(k - 1)

Drop(s, k) == SubSeq(s, k + 1, Len(s))

\* the digits after a decimal point at the head of s
FractionDigits(s) == IF s # <<>> /\ Head(s) = "." THEN DigitPrefix(Tail(s)) ELSE <<>>

\* parseFloat of a text without sign, leading space or exponent: the
\* longest prefix digits[.digits]
ParseFloat(s) ==
  LET whole == DigitPrefix(s)
      fraction == FractionDigits(Drop(s, Len(whole)))
  IN IF whole = <<>> /\ fraction = <<>> THEN [nan |-> TRUE, v |-> RInt(0)]
     ELSE [nan |-> FALSE, v |-> RFrac(DigitsVal(whole \o fraction), Pow10(Len(fraction)))]

\* parseInt(s, 10) || 0 of a text without sign or leading space
ParseIntOrZero(s) == DigitsVal(DigitPrefix(s))

\* value.replace(',', '.'): the first comma only
RECURSIVE ReplaceComma(_)
ReplaceComma(s) ==
  IF s = <<>> THEN <<>>
  ELSE IF Head(s) = "," THEN <<".">> \o Tail(s)
  ELSE <<Head(s)>> \o ReplaceComma(Tail(s))

normalizeRateInput(value) ==
  LET parsed == ParseFloat(ReplaceComma(value))
  IN IF parsed.nan THEN RInt(0) ELSE RDiv(parsed.v, RInt(100))

RECURSIVE StripZeros(_)
StripZeros(s) ==
  IF s # <<>> /\ s[Len(s)] = "0" THEN StripZeros(SubSeq(s, 1, Len(s) - 1)) ELSE s

\* the decimals of toFixed(4), without the zeros Number(...).toString() drops
Decimals4(i) ==
  StripZeros(<<DigitChar[((i \div 1000) % 10) + 1], DigitChar[((i \div 100) % 10) + 1],
               DigitChar[((i \div 10) % 10) + 1], DigitChar[(i % 10) + 1]>>)

\* Number(x.toFixed(4)).toString() for the ten-thousandths i >= 0 of x
FixedStr(i) ==
  IF i % 10000 = 0 THEN Digits(i \div 10000)
  ELSE Digits(i \div 10000) \o <<".">> \o Decimals4(i % 10000)

\* formatRateForInput of a finite rate >= 0 below 100
formatRateForInput(value) ==
  FixedStr(BSmall(MathRound(RMul(RMul(value, RInt(100)), RInt(10000))).m))

\* the items of value.split(',')
RECURSIVE SplitComma(_, _)
SplitComma(s, item) ==
  IF s = <<>> THEN <<item>>
  ELSE IF Head(s) = "," THEN <<item>> \o SplitComma(Tail(s), <<>>)
  ELSE SplitComma(Tail(s), item \o <<Head(s)>>)

RECURSIVE TrimLeft(_)
TrimLeft(s) == IF s # <<>> /\ Head(s) = " " THEN TrimLeft(Tail(s)) ELSE s

RECURSIVE TrimRight(_)
TrimRight(s) ==
  IF s # <<>> /\ s[Len(s)] = " " THEN TrimRight(SubSeq(s, 1, Len(s) - 1)) ELSE s

\* String.prototype.trim for the space character
Trim(s) == TrimRight(TrimLeft(s))

RECURSIVE NumbersOf(_)
NumbersOf(items) ==
  IF items = <<>> THEN <<>>
  ELSE <<NumberOf(Trim(Head(items)))>> \o NumbersOf(Tail(items))

RECURSIVE ValuesOf(_)
ValuesOf(numbers) ==
  IF numbers = <<>> THEN <<>> ELSE <<Head(numbers).v>> \o ValuesOf(Tail(numbers))

parsePlazos(value) ==
  ValuesOf(SelectSeq(NumbersOf(SplitComma(value, <<>>)), LAMBDA x : ~x.nan /\ x.v > 0))

\* plazos.join(', ')
RECURSIVE JoinPlazos(_)
JoinPlazos(plazos) ==
  IF plazos = <<>> THEN <<>>
  ELSE IF Len(plazos) = 1 THEN ToStr(plazos[1])
  ELSE ToStr(plazos[1]) \o <<",", " ">> \o JoinPlazos(Tail(plazos))

(***************************************************************************)
(* Of the rounding of JavaScript's numbers the model keeps one case: a sum  *)
(* 1 + x that rounds to 1.                                                  *)
(***************************************************************************)
\* 2 ^ -53, half of Number.EPSILON
HalfEpsilon == RDiv(RInt(1), RPowNat(RInt(2), 53))

\* 1 + x for x > 0: the nearest double to the sum is 1 when x <= 2 ^ -53
\* (a tie goes to the even significand); a larger sum is kept exact
OnePlus(x) == IF RLe(x, HalfEpsilon) THEN RInt(1) ELSE RAdd(RInt(1), x)

(***************************************************************************)
(* Bounds of the model and the values of the repository's configuration.   *)
(***************************************************************************)
\* amounts are the multiples -1..MaxAmountSteps of the slider's step
MaxAmountSteps == 3
\* terms are the integers -1..MaxTerm, the configured terms and NaN
MaxTerm == 3
\* rates are -1 %, 0 %, the multiples 1..MaxRateSteps of half a percent and
\* the configured rates
MaxRateSteps == 2

SliderStep == 100000
DefaultMontoMinimo == 1000000
SecondMontoMinimo == 5000000
FallbackTerm == 12
SecondTerm == 24

\* a rate in hundredths of a percent, as a number of percent
RateOf(k) == RFrac(k, 100)

DefaultRate == RateOf(120)
SecondRate == RateOf(145)

Amounts ==
  {k * SliderStep : k \in -1..MaxAmountSteps} \cup {DefaultMontoMinimo, SecondMontoMinimo}

TermValues == (-1..MaxTerm) \cup {FallbackTerm, SecondTerm}

TermStrings == {ToStr(t) : t \in TermValues} \cup {NaNStr}

RatePoints == {-100, 0, 120, 145} \cup {50 * j : j \in 1..MaxRateSteps}

Rates == {RateOf(k) : k \in RatePoints}

Null == [null |-> TRUE]

(***************************************************************************)
(* CreditSimulator: the props and state the estimate reads, what a render  *)
(* computes from them, and the mutation of useCreditSimulation.            *)
(***************************************************************************)
VARIABLES
  amount,           \* useState amount
  term,             \* useState term, a string
  monthlyRate,      \* the monthlyRate prop, in percent
  phase,            \* "mounted" before the first render, then "rendered"
  payment,          \* estimatedPayment of the last render, or Null
  roundedPayment,   \* Math.round(estimatedPayment || 0) of the last render
  lastSimulatedKey, \* useState lastSimulatedKey, a string or Null
  simStatus,        \* the mutation's status: idle, pending, success, error
  simData,          \* the mutation's data, a CreditSimulationResult or Null
  simRequest        \* the request in flight with its onSuccess key, or Null

VARIABLES
  minAmount,        \* the minAmount prop
  maxAmount,        \* the maxAmount prop
  terms,            \* the terms prop, a sequence of numbers
  showModeToggle,   \* the showModeToggle prop
  mode,             \* useState mode: "slider" or "input"
  manualAmount      \* useState manualAmount, a string

simVars ==
  <<amount, term, monthlyRate, phase, payment, roundedPayment,
    lastSimulatedKey, simStatus, simData, simRequest>>

uiVars == <<minAmount, maxAmount, terms, showModeToggle, mode, manualAmount>>

\* useSimulatorConfigs (features/admin/simulator-config/hooks) and what it
\* talks to
VARIABLES
  simConfigs,           \* useState simConfigs
  selectedConfigId,     \* useState selectedConfigId
  dialogOpen,           \* useState dialogOpen
  dialogMode,           \* useState dialogMode
  activeSimConfig,      \* useState activeSimConfig
  configForm,           \* useState configForm
  deleteDialogOpen,     \* useState deleteDialogOpen
  configPendingDelete,  \* useState configPendingDelete
  requests,             \* the mutations in flight
  backendConfigs,       \* the configurations the backend holds
  backendLastId,        \* the last id the backend gave to a configuration
  saved,                \* the number of submissions of the form so far
  enteredRate           \* per configuration id, the rate text it was saved
                        \* with from the form: <<text>>, or <<>>

adminVars ==
  <<simConfigs, selectedConfigId, dialogOpen, dialogMode, activeSimConfig, configForm,
    deleteDialogOpen, configPendingDelete, requests, backendConfigs, backendLastId,
    saved, enteredRate>>

\* useChatbot (features/chatbot/hooks/use-chatbot.ts) in ChatbotWidget
VARIABLES
  messages,         \* useState messages
  chatMounted,      \* whether a ChatbotWidget is mounted
  chatStatus,       \* the mutation: "idle", "pending", "success" or "error"
  chatRequest,      \* the variables of the pending mutation
  sessionItem,      \* sessionStorage's item 'krediplus_chat_history'; <<>> is none
  localItem,        \* localStorage's item 'krediplus_chat_history'; <<>> is none
  chatInFlight,     \* the number of sendChatMessage requests not yet settled
  lastSend          \* the call of sendMessage made by the last step, if any

chatVars ==
  <<messages, chatMounted, chatStatus, chatRequest, sessionItem, localItem,
    chatInFlight, lastSend>>

\* the Supabase session and the calls of the API modules (lib/api-client)
VARIABLES
  session,          \* supabase.auth: the access token of the session, or NoSession
  pendingCalls,     \* the calls of fetchWithAuth that await requireSession()
  lastOutcome       \* what the last call of an API function did

authVars == <<session, pendingCalls, lastOutcome>>

\* the local list that useClients (in ClientTable) and useSimulatorConfigs
\* (in AdminPage) keep in step with the list of their server query; arrays
\* are told apart by their reference
VARIABLES
  syncMounted,      \* per component: whether it is mounted
  queryStatus,      \* per component: the query's status: pending, error, success
  dataRef,          \* per component: the array the query holds as data, or NoData
  propRef,          \* per component: the array passed to the hook by the last render
  stateRef,         \* per component: the array held by useState (clients, simConfigs)
  syncSelectedId,   \* AdminPage: selectedConfigId
  renderDue,        \* per component: a render is scheduled
  effectDue,        \* per component: the effects of the last render have yet to run
  syncEvents        \* the number of events from outside the cycle so far

syncVars ==
  <<syncMounted, queryStatus, dataRef, propRef, stateRef, syncSelectedId, renderDue,
    effectDue, syncEvents>>

\* the features other than the simulator and the admin's configurations
featureVars == <<authVars, chatVars, syncVars>>

\* the state of the other features of the frontend
others == <<adminVars, featureVars>>

vars == <<simVars, uiVars, others>>

\* const selectedTerm = Number(term) || 1
selectedTerm == NumberOr(term, 1)

\* estimatedPayment that returns the payment of the last remote result
\* when there is one
estimatedPayment_RemoteRetained(amt, months, rate) ==
  IF simData # Null THEN simData.monthlyPayment
  ELSE RDiv(RInt(amt), RInt(months))

\* estimatedPayment with the percentage used as the decimal rate
estimatedPayment_RateNotScaled(amt, months, rate) ==
  LET monthlyRateDecimal == rate
  IN IF RSign(monthlyRateDecimal) <= 0 THEN RDiv(RInt(amt), RInt(months))
     ELSE LET numerator == RMul(RInt(amt), monthlyRateDecimal)
              denominator ==
                RSub(RInt(1), MathPow(RAdd(RInt(1), monthlyRateDecimal), -months))
          IN IF RSign(denominator) = 0 THEN RInt(0)
             ELSE RDiv(numerator, denominator)

\* estimatedPayment with the interest-free branch taken for negative rates only
estimatedPayment_ZeroRateThroughAnnuity(amt, months, rate) ==
  LET monthlyRateDecimal == RDiv(rate, RInt(100))
  IN IF RSign(monthlyRateDecimal) < 0 THEN RDiv(RInt(amt), RInt(months))
     ELSE LET numerator == RMul(RInt(amt), monthlyRateDecimal)
              denominator ==
                RSub(RInt(1), MathPow(RAdd(RInt(1), monthlyRateDecimal), -months))
          IN IF RSign(denominator) = 0 THEN RInt(0)
             ELSE RDiv(numerator, denominator)

\* estimatedPayment with the interest-free branch taken for the zero rate only
estimatedPayment_OnlyZeroRateIsFree(amt, months, rate) ==
  LET monthlyRateDecimal == RDiv(rate, RInt(100))
  IN IF RSign(monthlyRateDecimal) = 0 THEN RDiv(RInt(amt), RInt(months))
     ELSE LET numerator == RMul(RInt(amt), monthlyRateDecimal)
              denominator ==
                RSub(RInt(1), MathPow(RAdd(RInt(1), monthlyRateDecimal), -months))
          IN IF RSign(denominator) = 0 THEN RInt(0)
             ELSE RDiv(numerator, denominator)

\* estimatedPayment with the exponent's sign dropped
estimatedPayment_PositiveExponent(amt, months, rate) ==
  LET monthlyRateDecimal == RDiv(rate, RInt(100))
  IN IF RSign(monthlyRateDecimal) <= 0 THEN RDiv(RInt(amt), RInt(months))
     ELSE LET numerator == RMul(RInt(amt), monthlyRateDecimal)
              denominator ==
                RSub(RInt(1), MathPow(RAdd(RInt(1), monthlyRateDecimal), months))
          IN IF RSign(denominator) = 0 THEN RInt(0)
             ELSE RDiv(numerator, denominator)

\* estimatedPayment with the denominator's difference reversed
estimatedPayment_DenominatorReversed(amt, months, rate) ==
  LET monthlyRateDecimal == RDiv(rate, RInt(100))
  IN IF RSign(monthlyRateDecimal) <= 0 THEN RDiv(RInt(amt), RInt(months))
     ELSE LET numerator == RMul(RInt(amt), monthlyRateDecimal)
              denominator ==
                RSub(MathPow(RAdd(RInt(1), monthlyRateDecimal), -months), RInt(1))
          IN IF RSign(denominator) = 0 THEN RInt(0)
             ELSE RDiv(numerator, denominator)

\* estimatedPayment with the interest-free branch taken for every rate
estimatedPayment_NoInterest(amt, months, rate) == RDiv(RInt(amt), RInt(months))

\* estimatedPayment with the interest-free branch not divided by the months
estimatedPayment_ZeroRateUndivided(amt, months, rate) ==
  LET monthlyRateDecimal == RDiv(rate, RInt(100))
  IN IF RSign(monthlyRateDecimal) <= 0 THEN RInt(amt)
     ELSE LET numerator == RMul(RInt(amt), monthlyRateDecimal)
              denominator ==
                RSub(RInt(1), MathPow(RAdd(RInt(1), monthlyRateDecimal), -months))
          IN IF RSign(denominator) = 0 THEN RInt(0)
             ELSE RDiv(numerator, denominator)

\* the useMemo of estimatedPayment, as a function of what it reads
\* estimatedPayment with the guard's branch returning amount / months
estimatedPayment_GuardReturnsLinear(amt, months, rate) ==
  LET monthlyRateDecimal == RDiv(rate, RInt(100))
  IN IF RSign(monthlyRateDecimal) <= 0 THEN RDiv(RInt(amt), RInt(months))
     ELSE LET numerator == RMul(RInt(amt), monthlyRateDecimal)
              denominator ==
                RSub(RInt(1), MathPow(OnePlus(monthlyRateDecimal), -months))
          IN IF RSign(denominator) = 0 THEN RDiv(RInt(amt), RInt(months))
             ELSE RDiv(numerator, denominator)

estimatedPayment(amt, months, rate) ==
  LET monthlyRateDecimal == RDiv(rate, RInt(100))
  IN IF RSign(monthlyRateDecimal) <= 0 THEN RDiv(RInt(amt), RInt(months))
     ELSE LET numerator == RMul(RInt(amt), monthlyRateDecimal)
              denominator ==
                RSub(RInt(1), MathPow(OnePlus(monthlyRateDecimal), -months))
          IN IF RSign(denominator) = 0 THEN RInt(0)
             ELSE RDiv(numerator, denominator)

\* `${amount}-${selectedTerm}`
SimulationKey(amt, months) == ToStr(amt) \o <<"-">> \o ToStr(months)

currentSimulationKey == SimulationKey(amount, selectedTerm)

\* the other features before their hooks are mounted
\* a selectedConfigId of null; the ids of configurations are positive
NoId == 0

\* const emptyForm
emptyForm ==
  [tasaInteresMensual |-> <<>>, montoMinimo |-> <<>>, montoMaximo |-> <<>>,
   plazosDisponibles |-> <<>>]

\* the admin submits the configuration form at most MaxSaves times; with the
\* configuration the backend starts with, the ids are 1..MaxSaves + 1
MaxSaves == 1

ConfigIds == 1..(MaxSaves + 1)

AdminIdle ==
  /\ simConfigs = <<>>
  /\ selectedConfigId = NoId
  /\ dialogOpen = FALSE
  /\ dialogMode = "create"
  /\ activeSimConfig = Null
  /\ configForm = emptyForm
  /\ deleteDialogOpen = FALSE
  /\ configPendingDelete = Null
  /\ requests = {}
  /\ backendConfigs = <<>>
  /\ backendLastId = 0
  /\ saved = 0
  /\ enteredRate = [id \in ConfigIds |-> <<>>]

\* no session: supabase.auth.getSession() gives data.session = null
NoSession == "none"

\* a request without an Authorization header
NoHeader == <<>>

\* what a call of an API function did: a request with its Authorization
\* header, or a failure thrown before any request; session is the session
\* at that moment
Outcome(fn, kind, authorization, current) ==
  [fn |-> fn, kind |-> kind, authorization |-> authorization, session |-> current]

NoOutcome == Outcome("none", "none", NoHeader, NoSession)

AuthIdle ==
  /\ session = NoSession
  /\ pendingCalls = {}
  /\ lastOutcome = NoOutcome

\* no call of sendMessage
NoSend == [called |-> FALSE, rawQuery |-> <<>>, returned |-> FALSE]

\* sendMessage(rawQuery) returning returned
Send(rawQuery, returned) == [called |-> TRUE, rawQuery |-> rawQuery, returned |-> returned]

ChatIdle ==
  /\ messages = <<>>
  /\ chatMounted = FALSE
  /\ chatStatus = "idle"
  /\ chatRequest = Null
  /\ sessionItem = <<>>
  /\ localItem = <<>>
  /\ chatInFlight = 0
  /\ lastSend = NoSend

Components == {"ClientTable", "AdminPage"}

NoData == "none"

NoRef == "none"

\* neither ClientTable nor AdminPage is mounted and no query has run
SyncIdle ==
  /\ syncMounted = [c \in Components |-> FALSE]
  /\ queryStatus = [c \in Components |-> "pending"]
  /\ dataRef = [c \in Components |-> NoData]
  /\ propRef = [c \in Components |-> NoRef]
  /\ stateRef = [c \in Components |-> NoRef]
  /\ syncSelectedId = NoId
  /\ renderDue = [c \in Components |-> FALSE]
  /\ effectDue = [c \in Components |-> FALSE]
  /\ syncEvents = 0

OthersIdle == AdminIdle /\ AuthIdle /\ ChatIdle /\ SyncIdle

\* no CreditSimulator is on the page
SimulatorUnmounted ==
  /\ amount = 0
  /\ term = <<>>
  /\ monthlyRate = RInt(0)
  /\ phase = "unmounted"
  /\ payment = Null
  /\ roundedPayment = Null
  /\ lastSimulatedKey = Null
  /\ simStatus = "idle"
  /\ simData = Null
  /\ simRequest = Null
  /\ minAmount = 0
  /\ maxAmount = 0
  /\ terms = <<>>
  /\ showModeToggle = TRUE
  /\ mode = "slider"
  /\ manualAmount = <<>>

Init ==
  /\ amount \in Amounts
  /\ term \in TermStrings
  /\ monthlyRate \in Rates
  /\ phase = "mounted"
  /\ payment = Null
  /\ roundedPayment = Null
  /\ lastSimulatedKey = Null
  /\ simStatus = "idle"
  /\ simData = Null
  /\ simRequest = Null
  /\ minAmount = amount
  /\ maxAmount = amount
  /\ terms = <<>>
  /\ showModeToggle = FALSE
  /\ mode = "slider"
  /\ manualAmount = ToStr(amount)
  /\ OthersIdle

\* one evaluation of the component body
Render ==
  /\ phase = "mounted"
  /\ phase' = "rendered"
  /\ payment' = estimatedPayment(amount, selectedTerm, monthlyRate)
  /\ roundedPayment' = MathRound(OrZero(payment'))
  /\ UNCHANGED <<amount, term, monthlyRate, lastSimulatedKey, simStatus, simData, simRequest>>
  /\ UNCHANGED <<uiVars, others>>

\* handleSimulate, behind the button that is disabled while isSimulating
handleSimulate ==
  /\ phase = "rendered"
  /\ simStatus # "pending"
  /\ LET simulationTerm == IF selectedTerm # 0 THEN selectedTerm ELSE FallbackTerm
         simulationAmount == amount
         simulationKey == SimulationKey(simulationAmount, simulationTerm)
     IN /\ lastSimulatedKey' = Null
        /\ simRequest' = [monto |-> ToStr(simulationAmount),
                          plazo_meses |-> ToStr(simulationTerm),
                          key |-> simulationKey]
  /\ simStatus' = "pending"
  /\ simData' = Null
  /\ UNCHANGED <<amount, term, monthlyRate, phase, payment, roundedPayment>>
  /\ UNCHANGED <<uiVars, others>>

(***************************************************************************)
(* The backend's GET /simulator/simulate, whose code is not part of the    *)
(* frontend sources: the AmortizationCalculator of the specification,      *)
(* applied to the query's monto and plazo_meses at the backend's rate.     *)
(***************************************************************************)
InvalidArgument == [error |-> "InvalidArgument"]

AmortizationCalculator(principal, monthlyRatePercent, termMonths) ==
  IF principal <= 0 \/ termMonths < 1 \/ RSign(monthlyRatePercent) < 0
  THEN InvalidArgument
  ELSE LET r == RDiv(monthlyRatePercent, RInt(100))
           denominator == RSub(RInt(1), MathPow(RAdd(RInt(1), r), -termMonths))
           monthlyPayment ==
             IF RSign(r) = 0 THEN RDiv(RInt(principal), RInt(termMonths))
             ELSE IF RSign(denominator) = 0 THEN RInt(0)
             ELSE RDiv(RMul(RInt(principal), r), denominator)
           totalToPay == RMul(monthlyPayment, RInt(termMonths))
           totalInterest == RSub(totalToPay, RInt(principal))
       IN [error |-> "",
           monthlyPayment |-> monthlyPayment,
           totalToPay |-> totalToPay,
           totalInterest |-> totalInterest]

\* the body of the backend's answer to a request at the rate it applies
SimulateEndpoint(request, ratePercent) ==
  LET monto == NumberOf(request.monto)
      plazo == NumberOf(request.plazo_meses)
  IN IF monto.nan \/ plazo.nan THEN InvalidArgument
     ELSE LET result == AmortizationCalculator(monto.v, ratePercent, plazo.v)
          IN IF result.error # "" THEN InvalidArgument
             ELSE [error |-> "",
                   monto_solicitado |-> monto.v,
                   plazo_meses |-> plazo.v,
                   tasa_interes_mensual |-> RDiv(ratePercent, RInt(100)),
                   cuota_mensual |-> result.monthlyPayment,
                   total_a_pagar |-> result.totalToPay,
                   total_intereses |-> result.totalInterest]

\* mapSimulationResponse with the two totals exchanged
mapSimulationResponse_TotalsSwapped(response) ==
  [amountRequested |-> response.monto_solicitado,
   termMonths |-> response.plazo_meses,
   monthlyRate |-> response.tasa_interes_mensual,
   monthlyPayment |-> response.cuota_mensual,
   totalToPay |-> response.total_intereses,
   totalInterests |-> response.total_a_pagar]

mapSimulationResponse(response) ==
  [amountRequested |-> response.monto_solicitado,
   termMonths |-> response.plazo_meses,
   monthlyRate |-> response.tasa_interes_mensual,
   monthlyPayment |-> response.cuota_mensual,
   totalToPay |-> response.total_a_pagar,
   totalInterests |-> response.total_intereses]

\* simulateCredit resolves: the mutation succeeds and the call's onSuccess runs
ResponseOk ==
  /\ simStatus = "pending"
  /\ \E response \in {SimulateEndpoint(simRequest, rate) : rate \in Rates} :
       /\ response.error = ""
       /\ simData' = mapSimulationResponse(response)
  /\ simStatus' = "success"
  /\ lastSimulatedKey' = simRequest.key
  /\ simRequest' = Null
  /\ UNCHANGED <<amount, term, monthlyRate, phase, payment, roundedPayment>>
  /\ UNCHANGED <<uiVars, others>>

\* simulateCredit rejects: the response is not ok, or fetch fails
ResponseError ==
  /\ simStatus = "pending"
  /\ simStatus' = "error"
  /\ simRequest' = Null
  /\ UNCHANGED <<amount, term, monthlyRate, phase, payment, roundedPayment,
                 lastSimulatedKey, simData>>
  /\ UNCHANGED <<uiVars, others>>

\* activeSimulationResult without the comparison of the keys
activeSimulationResult_KeyIgnored ==
  IF simData # Null THEN simData ELSE Null

\* simulationResult && lastSimulatedKey === currentSimulationKey ? simulationResult : null
activeSimulationResult ==
  IF simData # Null /\ lastSimulatedKey = currentSimulationKey THEN simData ELSE Null

Next == Render \/ handleSimulate \/ ResponseOk \/ ResponseError

Spec == Init /\ [][Next]_vars

(***************************************************************************)
(* CreditSimulator mounted with valid inputs whose rate is around the      *)
(* smallest that 1 + monthlyRateDecimal tells from 1.                      *)
(***************************************************************************)
\* a rate in percent whose monthlyRateDecimal is k * 2 ^ -54
TinyRateOf(k) == RMul(RInt(100 * k), RDiv(HalfEpsilon, RInt(2)))

\* monthlyRateDecimal of 2 ^ -54, 2 ^ -53, 3 * 2 ^ -54 and 2 ^ -52, and the
\* configured rates
GuardRates == {TinyRateOf(k) : k \in 1..4} \cup {DefaultRate, SecondRate}

GuardAmounts == {a \in Amounts : a > 0}

GuardTerms == {ToStr(t) : t \in (1..MaxTerm) \cup {FallbackTerm}}

InitGuard ==
  /\ amount \in GuardAmounts
  /\ term \in GuardTerms
  /\ monthlyRate \in GuardRates
  /\ phase = "mounted"
  /\ payment = Null
  /\ roundedPayment = Null
  /\ lastSimulatedKey = Null
  /\ simStatus = "idle"
  /\ simData = Null
  /\ simRequest = Null
  /\ minAmount = amount
  /\ maxAmount = amount
  /\ terms = <<>>
  /\ showModeToggle = FALSE
  /\ mode = "slider"
  /\ manualAmount = ToStr(amount)
  /\ OthersIdle

SpecGuard == InitGuard /\ [][Next]_vars

(***************************************************************************)
(* CreditSimulator under its user: the slider, the mode toggle, the manual *)
(* input, the term select and changes of the props.  A handler is taken    *)
(* with the effects and the render that follow its state updates.          *)
(***************************************************************************)
\* slider positions and prop bounds are multiples up to MaxUiSteps + 1 of
\* the slider's step
MaxUiSteps == 3

\* clampAmount; no amount of the model is NaN
clampAmount(value, min, max) ==
  IF value < min THEN min
  ELSE IF value > max THEN max
  ELSE value

\* value.replace(/[^0-9]/g, '')
Sanitize(value) == SelectSeq(value, IsDigit)

\* the effect on [mode, amount, showModeToggle]
SyncManual(m, amt, prev) ==
  IF ~showModeToggle THEN prev
  ELSE IF m = "input" THEN prev
  ELSE ToStr(amt)

\* the effect on [terms]
SyncTerm(options, prev) ==
  IF \E i \in 1..Len(options) : ToStr(options[i]) = prev THEN prev
  ELSE ToStr(IF options # <<>> THEN options[1] ELSE FallbackTerm)

\* the props a parent passes
UiProps ==
  {[minAmount |-> (MaxUiSteps - 1) * SliderStep, maxAmount |-> MaxUiSteps * SliderStep,
    terms |-> <<1, 2>>, monthlyRate |-> DefaultRate],
   [minAmount |-> MaxUiSteps * SliderStep, maxAmount |-> MaxUiSteps * SliderStep,
    terms |-> <<2, MaxTerm>>, monthlyRate |-> SecondRate]}

SliderValues == {k * SliderStep : k \in 1..(MaxUiSteps + 1)}

\* texts of the manual input: empty, below the minimum with a letter, the
\* maximum, above the maximum
TypedTexts ==
  {<<>>, <<"5", "k">>, ToStr(MaxUiSteps * SliderStep), ToStr(9 * SliderStep)}

InitUI ==
  /\ \E props \in UiProps :
       /\ minAmount = props.minAmount
       /\ maxAmount = props.maxAmount
       /\ terms = props.terms
       /\ monthlyRate = props.monthlyRate
  /\ showModeToggle \in BOOLEAN
  /\ amount = clampAmount(minAmount, minAmount, maxAmount)
  /\ term = ToStr(IF terms # <<>> THEN terms[1] ELSE FallbackTerm)
  /\ manualAmount = ToStr(amount)
  /\ mode = "slider"
  /\ phase = "mounted"
  /\ payment = Null
  /\ roundedPayment = Null
  /\ lastSimulatedKey = Null
  /\ simStatus = "idle"
  /\ simData = Null
  /\ simRequest = Null
  /\ OthersIdle

\* the render that follows a state update
Rerender ==
  /\ payment' = estimatedPayment(amount', NumberOr(term', 1), monthlyRate')
  /\ roundedPayment' = MathRound(OrZero(payment'))

\* the Slider's onValueChange
SliderChange ==
  /\ phase = "rendered"
  /\ ~(mode = "input" /\ showModeToggle)
  /\ \E value \in SliderValues : amount' = clampAmount(value, minAmount, maxAmount)
  /\ manualAmount' = SyncManual(mode, amount', manualAmount)
  /\ UNCHANGED <<term, monthlyRate, phase, lastSimulatedKey, simStatus, simData, simRequest>>
  /\ UNCHANGED <<minAmount, maxAmount, terms, showModeToggle, mode, others>>
  /\ Rerender

\* the buttons Deslizar and Digitar
setMode ==
  /\ phase = "rendered"
  /\ showModeToggle
  /\ \E m \in {"slider", "input"} : mode' = m
  /\ manualAmount' = SyncManual(mode', amount, manualAmount)
  /\ UNCHANGED <<simVars, minAmount, maxAmount, terms, showModeToggle, others>>

handleManualChange ==
  /\ phase = "rendered"
  /\ mode = "input" /\ showModeToggle
  /\ \E sanitized \in {Sanitize(value) : value \in TypedTexts} :
       /\ manualAmount' = sanitized
       /\ amount' = IF sanitized = <<>> THEN amount ELSE NumberOf(sanitized).v
  /\ UNCHANGED <<term, monthlyRate, phase, lastSimulatedKey, simStatus, simData, simRequest>>
  /\ UNCHANGED <<minAmount, maxAmount, terms, showModeToggle, mode, others>>
  /\ Rerender

handleManualBlur ==
  /\ phase = "rendered"
  /\ mode = "input" /\ showModeToggle
  /\ amount' = clampAmount(IF manualAmount = <<>> THEN minAmount ELSE NumberOf(manualAmount).v,
                           minAmount, maxAmount)
  /\ manualAmount' = ToStr(amount')
  /\ UNCHANGED <<term, monthlyRate, phase, lastSimulatedKey, simStatus, simData, simRequest>>
  /\ UNCHANGED <<minAmount, maxAmount, terms, showModeToggle, mode, others>>
  /\ Rerender

\* the Select's onValueChange
setTerm ==
  /\ phase = "rendered"
  /\ \E i \in 1..Len(terms) : term' = ToStr(terms[i])
  /\ UNCHANGED <<amount, monthlyRate, phase, lastSimulatedKey, simStatus, simData, simRequest>>
  /\ UNCHANGED <<uiVars, others>>
  /\ Rerender

\* the parent passes other props: the effects on [minAmount, maxAmount] and
\* on [terms] run, then the effect on [mode, amount, showModeToggle]
PropsChange ==
  /\ phase = "rendered"
  /\ \E props \in UiProps :
       /\ minAmount' = props.minAmount
       /\ maxAmount' = props.maxAmount
       /\ terms' = props.terms
       /\ monthlyRate' = props.monthlyRate
  /\ amount' = clampAmount(amount, minAmount', maxAmount')
  /\ term' = SyncTerm(terms', term)
  /\ manualAmount' =
       IF amount' # amount THEN SyncManual(mode, amount', manualAmount) ELSE manualAmount
  /\ UNCHANGED <<phase, lastSimulatedKey, simStatus, simData, simRequest>>
  /\ UNCHANGED <<showModeToggle, mode, others>>
  /\ Rerender

NextUI ==
  \/ Render
  \/ SliderChange
  \/ setMode
  \/ handleManualChange
  \/ handleManualBlur
  \/ setTerm
  \/ PropsChange
  \/ handleSimulate
  \/ ResponseOk
  \/ ResponseError

SpecUI == InitUI /\ [][NextUI]_vars

(***************************************************************************)
(* The admin's simulator configuration: useSimulatorConfigs, the backend   *)
(* it talks to, and the preview CreditSimulator of SimulatorConfigTable.   *)
(***************************************************************************)
MapSeq(f(_), seq) == [i \in 1..Len(seq) |-> f(seq[i])]

\* array.find: the first element with the id, Null when there is none
FindById(configs, id) ==
  IF \E i \in 1..Len(configs) : configs[i].id = id
  THEN configs[CHOOSE i \in 1..Len(configs) :
                 configs[i].id = id /\ \A j \in 1..(i - 1) : configs[j].id # id]
  ELSE Null

mapSimulatorConfig(apiConfig) ==
  [id |-> apiConfig.id,
   tasaInteresMensual |-> apiConfig.tasa_interes_mensual,
   montoMinimo |-> apiConfig.monto_minimo,
   montoMaximo |-> apiConfig.monto_maximo,
   plazosDisponibles |-> apiConfig.plazos_disponibles,
   isActive |-> apiConfig.is_active]

\* POST /simulator/config: the backend stores the payload under a new id
CreateConfigEndpoint(payload, id) ==
  [id |-> id,
   tasa_interes_mensual |-> payload.tasa_interes_mensual,
   monto_minimo |-> payload.monto_minimo,
   monto_maximo |-> payload.monto_maximo,
   plazos_disponibles |-> payload.plazos_disponibles,
   is_active |-> FALSE]

\* the update of a configuration: the payload replaces the stored fields
UpdateConfigEndpoint(stored, payload) ==
  [id |-> stored.id,
   tasa_interes_mensual |-> payload.tasa_interes_mensual,
   monto_minimo |-> payload.monto_minimo,
   monto_maximo |-> payload.monto_maximo,
   plazos_disponibles |-> payload.plazos_disponibles,
   is_active |-> stored.is_active]

\* POST /simulator/config/{id}/activate: one configuration is active
ActivateConfigEndpoint(configs, id) ==
  [i \in 1..Len(configs) |-> [configs[i] EXCEPT !.is_active = (configs[i].id = id)]]

\* the deletion of a configuration
DeleteConfigEndpoint(configs, id) == SelectSeq(configs, LAMBDA c : c.id # id)

\* const selectedConfig = useMemo(...)
SelectedConfigOf(configs, id) ==
  IF configs = <<>> THEN Null
  ELSE IF id = NoId THEN configs[1]
  ELSE IF FindById(configs, id) # Null THEN FindById(configs, id)
  ELSE configs[1]

selectedConfig == SelectedConfigOf(simConfigs, selectedConfigId)

\* const previewTerms
previewTerms(config) ==
  IF config.plazosDisponibles # <<>> THEN config.plazosDisponibles ELSE <<FallbackTerm>>

\* <CreditSimulator key={selectedConfig.id} ... /> is mounted: the initial
\* state of its hooks, its effects and its render
PreviewMount(config) ==
  /\ minAmount' = config.montoMinimo
  /\ maxAmount' = config.montoMaximo
  /\ terms' = previewTerms(config)
  /\ monthlyRate' = config.tasaInteresMensual
  /\ showModeToggle' = TRUE
  /\ mode' = "slider"
  /\ amount' = clampAmount(config.montoMinimo, minAmount', maxAmount')
  /\ term' = ToStr(terms'[1])
  /\ manualAmount' = ToStr(amount')
  /\ phase' = "rendered"
  /\ lastSimulatedKey' = Null
  /\ simStatus' = "idle"
  /\ simData' = Null
  /\ simRequest' = Null
  /\ Rerender

\* the mounted preview gets the props of a changed configuration with the
\* same key: the effects on [minAmount, maxAmount], [terms], [initialAmount,
\* minAmount, maxAmount] and [initialTerm] run, then the render
PreviewProps(config) ==
  /\ minAmount' = config.montoMinimo
  /\ maxAmount' = config.montoMaximo
  /\ terms' = previewTerms(config)
  /\ monthlyRate' = config.tasaInteresMensual
  /\ amount' =
       IF minAmount' # minAmount \/ maxAmount' # maxAmount
       THEN clampAmount(config.montoMinimo, minAmount', maxAmount')
       ELSE amount
  /\ manualAmount' =
       IF minAmount' # minAmount \/ maxAmount' # maxAmount THEN ToStr(amount')
       ELSE manualAmount
  /\ term' = IF terms'[1] # terms[1] THEN ToStr(terms'[1]) ELSE SyncTerm(terms', term)
  /\ UNCHANGED <<showModeToggle, mode, phase, lastSimulatedKey, simStatus, simData, simRequest>>
  /\ Rerender

\* {selectedConfig && ...}: nothing of the preview is rendered
PreviewUnmount ==
  /\ phase' = "unmounted"
  /\ UNCHANGED <<amount, term, monthlyRate, payment, roundedPayment, lastSimulatedKey,
                 simStatus, simData, simRequest, uiVars>>

\* the render of SimulatorConfigTable after an update of the hook's state
PreviewFollows ==
  IF SelectedConfigOf(simConfigs', selectedConfigId') = Null THEN PreviewUnmount
  ELSE IF phase = "rendered" /\ selectedConfig # Null
          /\ selectedConfig.id = SelectedConfigOf(simConfigs', selectedConfigId').id
  THEN IF selectedConfig = SelectedConfigOf(simConfigs', selectedConfigId')
       THEN UNCHANGED <<simVars, uiVars>>
       ELSE PreviewProps(SelectedConfigOf(simConfigs', selectedConfigId'))
  ELSE PreviewMount(SelectedConfigOf(simConfigs', selectedConfigId'))

\* the texts the admin types in the fields of the form
FormTexts ==
  [tasaInteresMensual |-> {<<"1", ".", "2">>},
   montoMinimo |-> {ToStr((MaxUiSteps - 1) * SliderStep)},
   montoMaximo |-> {ToStr(MaxUiSteps * SliderStep)},
   plazosDisponibles |-> {<<"2", ",", " ", "3">>}]

\* the active configuration the backend holds when the admin page loads
InitialBackendConfig ==
  [id |-> 1,
   tasa_interes_mensual |-> RFrac(145, 10000),
   monto_minimo |-> SliderStep,
   monto_maximo |-> (MaxUiSteps - 1) * SliderStep,
   plazos_disponibles |-> <<1, 2>>,
   is_active |-> TRUE]

InitAdmin ==
  /\ SimulatorUnmounted
  /\ simConfigs = <<>>
  /\ selectedConfigId = NoId
  /\ dialogOpen = FALSE
  /\ dialogMode = "create"
  /\ activeSimConfig = Null
  /\ configForm = emptyForm
  /\ deleteDialogOpen = FALSE
  /\ configPendingDelete = Null
  /\ requests = {}
  /\ backendConfigs = <<InitialBackendConfig>>
  /\ backendLastId = 1
  /\ saved = 0
  /\ enteredRate = [id \in ConfigIds |-> <<>>]
  /\ AuthIdle
  /\ ChatIdle
  /\ SyncIdle

Unchanged(request) == requests' = requests \ {request}

\* at most MaxInFlight mutations are in flight
MaxInFlight == 1

CanSend == Cardinality(requests) < MaxInFlight

\* the dialogs are modal: the table behind an open dialog takes no clicks
NoDialog == ~dialogOpen /\ ~deleteDialogOpen

\* openDialog('create') and openDialog('edit', config)
openDialog ==
  /\ NoDialog
  /\ \E config \in {Null} \cup {simConfigs[i] : i \in 1..Len(simConfigs)} :
       /\ dialogMode' = IF config = Null THEN "create" ELSE "edit"
       /\ activeSimConfig' = config
       /\ configForm' =
            IF config = Null THEN emptyForm
            ELSE [tasaInteresMensual |-> formatRateForInput(config.tasaInteresMensual),
                  montoMinimo |-> ToStr(config.montoMinimo),
                  montoMaximo |-> ToStr(config.montoMaximo),
                  plazosDisponibles |-> JoinPlazos(config.plazosDisponibles)]
  /\ dialogOpen' = TRUE
  /\ UNCHANGED <<simConfigs, selectedConfigId, deleteDialogOpen, configPendingDelete,
                 requests, backendConfigs, backendLastId, saved, enteredRate>>
  /\ UNCHANGED <<simVars, uiVars, featureVars>>

closeDialog ==
  /\ dialogOpen
  /\ dialogOpen' = FALSE
  /\ activeSimConfig' = Null
  /\ UNCHANGED <<simConfigs, selectedConfigId, dialogMode, configForm, deleteDialogOpen,
                 configPendingDelete, requests, backendConfigs, backendLastId, saved,
                 enteredRate>>
  /\ UNCHANGED <<simVars, uiVars, featureVars>>

handleFormChange ==
  /\ dialogOpen
  /\ \E field \in DOMAIN FormTexts : \E value \in FormTexts[field] :
       configForm' = [configForm EXCEPT ![field] = value]
  /\ UNCHANGED <<simConfigs, selectedConfigId, dialogOpen, dialogMode, activeSimConfig,
                 deleteDialogOpen, configPendingDelete, requests, backendConfigs,
                 backendLastId, saved, enteredRate>>
  /\ UNCHANGED <<simVars, uiVars, featureVars>>

\* the payload handleSaveConfig builds from the form
FormPayload ==
  [tasa_interes_mensual |-> normalizeRateInput(configForm.tasaInteresMensual),
   monto_minimo |-> ParseIntOrZero(configForm.montoMinimo),
   monto_maximo |-> ParseIntOrZero(configForm.montoMaximo),
   plazos_disponibles |->
     IF parsePlazos(configForm.plazosDisponibles) # <<>>
     THEN parsePlazos(configForm.plazosDisponibles)
     ELSE <<FallbackTerm>>]

\* a mutation in flight: its kind and variables, with the rate text of the
\* form it was built from and whether its configuration was active in
\* simConfigs when it was submitted
Request(kind, id, payload, entered, active) ==
  [kind |-> kind, id |-> id, payload |-> payload, entered |-> entered, active |-> active]

\* handleSaveConfig, behind the submit button that is disabled while the
\* mutation of the dialog's mode is pending
handleSaveConfig ==
  /\ dialogOpen
  /\ saved < MaxSaves
  /\ saved' = saved + 1
  /\ IF dialogMode = "create"
     THEN /\ CanSend
          /\ requests' = requests \cup
               {Request("create", NoId, FormPayload, configForm.tasaInteresMensual, FALSE)}
          /\ UNCHANGED <<dialogOpen, activeSimConfig>>
     ELSE IF activeSimConfig # Null
     THEN /\ CanSend
          /\ requests' = requests \cup
               {Request("update", activeSimConfig.id, FormPayload,
                        configForm.tasaInteresMensual, FALSE)}
          /\ UNCHANGED <<dialogOpen, activeSimConfig>>
     ELSE /\ dialogOpen' = FALSE
          /\ activeSimConfig' = Null
          /\ UNCHANGED requests
  /\ UNCHANGED <<simConfigs, selectedConfigId, dialogMode, configForm, deleteDialogOpen,
                 configPendingDelete, backendConfigs, backendLastId, enteredRate>>
  /\ UNCHANGED <<simVars, uiVars, featureVars>>

\* the backend creates the configuration; onSuccess of the create mutation
CreateResponse ==
  \E request \in requests :
    /\ request.kind = "create"
    /\ backendLastId' = backendLastId + 1
    /\ backendConfigs' =
         Append(backendConfigs, CreateConfigEndpoint(request.payload, backendLastId'))
    /\ simConfigs' = <<mapSimulatorConfig(backendConfigs'[Len(backendConfigs')])>> \o simConfigs
    /\ selectedConfigId' = backendLastId'
    /\ dialogOpen' = FALSE
    /\ activeSimConfig' = Null
    /\ enteredRate' = [enteredRate EXCEPT ![backendLastId'] = <<request.entered>>]
    /\ Unchanged(request)
    /\ UNCHANGED <<dialogMode, configForm, deleteDialogOpen, configPendingDelete, saved>>
    /\ UNCHANGED featureVars
    /\ PreviewFollows

\* the backend updates the configuration; onSuccess of the update mutation
UpdateResponse ==
  \E request \in requests :
    /\ request.kind = "update"
    /\ FindById(backendConfigs, request.id) # Null
    /\ backendConfigs' =
         MapSeq(LAMBDA c : IF c.id = request.id THEN UpdateConfigEndpoint(c, request.payload)
                           ELSE c, backendConfigs)
    /\ simConfigs' =
         MapSeq(LAMBDA existing :
                  IF existing.id = request.id
                  THEN mapSimulatorConfig(FindById(backendConfigs', request.id))
                  ELSE existing, simConfigs)
    /\ selectedConfigId' = request.id
    /\ dialogOpen' = FALSE
    /\ activeSimConfig' = Null
    /\ enteredRate' = [enteredRate EXCEPT ![request.id] = <<request.entered>>]
    /\ Unchanged(request)
    /\ UNCHANGED <<dialogMode, configForm, deleteDialogOpen, configPendingDelete,
                   backendLastId, saved>>
    /\ UNCHANGED featureVars
    /\ PreviewFollows

\* handleSelectConfig, from the row's Seleccionar item
handleSelectConfig ==
  /\ NoDialog
  /\ CanSend
  /\ \E i \in 1..Len(simConfigs) :
       /\ selectedConfigId' = simConfigs[i].id
       /\ requests' = requests \cup
            {Request("activate", simConfigs[i].id, Null, <<>>, simConfigs[i].isActive)}
  /\ UNCHANGED <<simConfigs, dialogOpen, dialogMode, activeSimConfig, configForm,
                 deleteDialogOpen, configPendingDelete, backendConfigs, backendLastId,
                 saved, enteredRate>>
  /\ UNCHANGED featureVars
  /\ PreviewFollows

\* the backend activates the configuration; onSuccess of the activate mutation
ActivateResponse ==
  \E request \in requests :
    /\ request.kind = "activate"
    /\ FindById(backendConfigs, request.id) # Null
    /\ backendConfigs' = ActivateConfigEndpoint(backendConfigs, request.id)
    /\ simConfigs' =
         MapSeq(LAMBDA config : [config EXCEPT !.isActive = (config.id = request.id)],
                simConfigs)
    /\ selectedConfigId' = request.id
    /\ Unchanged(request)
    /\ UNCHANGED <<dialogOpen, dialogMode, activeSimConfig, configForm, deleteDialogOpen,
                   configPendingDelete, backendLastId, saved, enteredRate>>
    /\ UNCHANGED featureVars
    /\ PreviewFollows

requestDeleteConfig ==
  /\ NoDialog
  /\ \E i \in 1..Len(simConfigs) :
       IF simConfigs[i].isActive
       THEN UNCHANGED <<configPendingDelete, deleteDialogOpen>>
       ELSE /\ configPendingDelete' = simConfigs[i]
            /\ deleteDialogOpen' = TRUE
  /\ UNCHANGED <<simConfigs, selectedConfigId, dialogOpen, dialogMode, activeSimConfig,
                 configForm, requests, backendConfigs, backendLastId, saved, enteredRate>>
  /\ UNCHANGED <<simVars, uiVars, featureVars>>

\* closeDeleteDialog; deleteSimulatorConfigMutation.reset() detaches the
\* observer, the request stays in flight
closeDeleteDialog ==
  /\ deleteDialogOpen
  /\ deleteDialogOpen' = FALSE
  /\ configPendingDelete' = Null
  /\ UNCHANGED <<simConfigs, selectedConfigId, dialogOpen, dialogMode, activeSimConfig,
                 configForm, requests, backendConfigs, backendLastId, saved, enteredRate>>
  /\ UNCHANGED <<simVars, uiVars, featureVars>>

\* confirmDeleteConfig, from the button of the delete dialog
confirmDeleteConfig ==
  /\ deleteDialogOpen
  /\ CanSend
  /\ IF configPendingDelete = Null THEN UNCHANGED requests
     ELSE requests' = requests \cup
            {Request("delete", configPendingDelete.id, Null, <<>>,
                     FindById(simConfigs, configPendingDelete.id) # Null
                       /\ FindById(simConfigs, configPendingDelete.id).isActive)}
  /\ UNCHANGED <<simConfigs, selectedConfigId, dialogOpen, dialogMode, activeSimConfig,
                 configForm, deleteDialogOpen, configPendingDelete, backendConfigs,
                 backendLastId, saved, enteredRate>>
  /\ UNCHANGED <<simVars, uiVars, featureVars>>

\* onSuccess of the delete mutation without the update of the selection
DeleteResponse_KeepsSelection ==
  \E request \in requests :
    /\ request.kind = "delete"
    /\ FindById(backendConfigs, request.id) # Null
    /\ backendConfigs' = DeleteConfigEndpoint(backendConfigs, request.id)
    /\ simConfigs' = SelectSeq(simConfigs, LAMBDA config : config.id # request.id)
    /\ configPendingDelete' = Null
    /\ deleteDialogOpen' = FALSE
    /\ Unchanged(request)
    /\ UNCHANGED <<selectedConfigId, dialogOpen, dialogMode, activeSimConfig, configForm,
                   backendLastId, saved, enteredRate>>
    /\ UNCHANGED featureVars
    /\ PreviewFollows

\* the backend deletes the configuration; onSuccess of the delete mutation
DeleteResponse ==
  \E request \in requests :
    /\ request.kind = "delete"
    /\ FindById(backendConfigs, request.id) # Null
    /\ backendConfigs' = DeleteConfigEndpoint(backendConfigs, request.id)
    /\ simConfigs' = SelectSeq(simConfigs, LAMBDA config : config.id # request.id)
    /\ selectedConfigId' =
         IF selectedConfigId = request.id
         THEN IF simConfigs' # <<>> THEN simConfigs'[1].id ELSE NoId
         ELSE selectedConfigId
    /\ configPendingDelete' = Null
    /\ deleteDialogOpen' = FALSE
    /\ Unchanged(request)
    /\ UNCHANGED <<dialogOpen, dialogMode, activeSimConfig, configForm, backendLastId,
                   saved, enteredRate>>
    /\ UNCHANGED featureVars
    /\ PreviewFollows

\* a failure handled like a settled mutation: the dialog closes
ResponseFailed_ClosesDialog ==
  /\ \E request \in requests : Unchanged(request)
  /\ dialogOpen' = FALSE
  /\ activeSimConfig' = Null
  /\ UNCHANGED <<simConfigs, selectedConfigId, dialogMode, configForm, deleteDialogOpen,
                 configPendingDelete, backendConfigs, backendLastId, saved, enteredRate>>
  /\ UNCHANGED <<simVars, uiVars, featureVars>>

\* a mutation fails: onError changes nothing of the hook's state
ResponseFailed ==
  /\ \E request \in requests : Unchanged(request)
  /\ UNCHANGED <<simConfigs, selectedConfigId, dialogOpen, dialogMode, activeSimConfig,
                 configForm, deleteDialogOpen, configPendingDelete, backendConfigs,
                 backendLastId, saved, enteredRate>>
  /\ UNCHANGED <<simVars, uiVars, featureVars>>

\* the query delivers the backend's list: the effects on [initialConfigs]
\* and [initialConfigs, defaultSelectionId]
ConfigsRefetched ==
  /\ simConfigs' = MapSeq(mapSimulatorConfig, backendConfigs)
  /\ selectedConfigId' =
       IF selectedConfigId # NoId /\ FindById(simConfigs', selectedConfigId) # Null
       THEN selectedConfigId
       ELSE IF \E i \in 1..Len(simConfigs') : simConfigs'[i].isActive
       THEN simConfigs'[CHOOSE i \in 1..Len(simConfigs') :
                          simConfigs'[i].isActive
                            /\ \A j \in 1..(i - 1) : ~simConfigs'[j].isActive].id
       ELSE IF simConfigs' # <<>> THEN simConfigs'[1].id
       ELSE NoId
  /\ UNCHANGED <<dialogOpen, dialogMode, activeSimConfig, configForm, deleteDialogOpen,
                 configPendingDelete, requests, backendConfigs, backendLastId, saved,
                 enteredRate>>
  /\ UNCHANGED featureVars
  /\ PreviewFollows

NextAdmin ==
  \/ openDialog
  \/ closeDialog
  \/ handleFormChange
  \/ handleSaveConfig
  \/ CreateResponse
  \/ UpdateResponse
  \/ handleSelectConfig
  \/ ActivateResponse
  \/ requestDeleteConfig
  \/ closeDeleteDialog
  \/ confirmDeleteConfig
  \/ DeleteResponse
  \/ ResponseFailed
  \/ ConfigsRefetched

SpecAdmin == InitAdmin /\ [][NextAdmin]_vars

(***************************************************************************)
(* The API modules and the Supabase session: which calls go through        *)
(* fetchWithAuth and which through fetch.                                  *)
(***************************************************************************)
\* the exported functions of the API modules: the router they call and
\* whether they call fetchWithAuth (TRUE) or fetch (FALSE)
ApiFunctions ==
  [fetchClients |-> [router |-> "clients", withAuth |-> TRUE],
   createClient |-> [router |-> "clients", withAuth |-> TRUE],
   fetchClientById |-> [router |-> "clients", withAuth |-> TRUE],
   updateClient |-> [router |-> "clients", withAuth |-> TRUE],
   deleteClient |-> [router |-> "clients", withAuth |-> TRUE],
   uploadClientDocument |-> [router |-> "documents", withAuth |-> TRUE],
   fetchClientDocuments |-> [router |-> "documents", withAuth |-> TRUE],
   deleteClientDocument |-> [router |-> "documents", withAuth |-> TRUE],
   createClientCredit |-> [router |-> "credits", withAuth |-> TRUE],
   fetchClientCredits |-> [router |-> "credits", withAuth |-> TRUE],
   updateClientCredit |-> [router |-> "credits", withAuth |-> TRUE],
   fetchRagDocuments |-> [router |-> "rag", withAuth |-> TRUE],
   fetchRagDocumentById |-> [router |-> "rag", withAuth |-> TRUE],
   uploadRagDocument |-> [router |-> "rag", withAuth |-> TRUE],
   deleteRagDocument |-> [router |-> "rag", withAuth |-> TRUE],
   fetchLoanApplications |-> [router |-> "loan_applications", withAuth |-> TRUE],
   createLoanApplication |-> [router |-> "loan_applications", withAuth |-> FALSE],
   simulateCredit |-> [router |-> "simulator", withAuth |-> FALSE],
   fetchSimulatorConfigs |-> [router |-> "simulator", withAuth |-> FALSE],
   createSimulatorConfig |-> [router |-> "simulator", withAuth |-> FALSE],
   activateSimulatorConfig |-> [router |-> "simulator", withAuth |-> FALSE],
   sendChatMessage |-> [router |-> "chat", withAuth |-> FALSE]]

\* the access tokens Supabase issues
Tokens == {"token1", "token2"}

\* at most MaxPendingCalls calls await requireSession()
MaxPendingCalls == 1

\* `Bearer ${session.access_token}`
Bearer(token) == <<"Bearer", token>>

\* requireSession: the session, or that it throws
requireSession(current, error) ==
  IF error THEN [ok |-> FALSE, session |-> NoSession]
  ELSE IF current = NoSession THEN [ok |-> FALSE, session |-> NoSession]
  ELSE [ok |-> TRUE, session |-> current]

\* fetchWithAuth that builds the header without requireSession's checks
fetchWithAuth_NoSessionCheck(fn, current, error) ==
  Outcome(fn, "request", Bearer(current), current)

\* fetchWithAuth: the request with the Authorization header, or the
\* failure of requireSession
fetchWithAuth(fn, current, error) ==
  IF requireSession(current, error).ok
  THEN Outcome(fn, "request", Bearer(requireSession(current, error).session), current)
  ELSE Outcome(fn, "threw", NoHeader, current)

\* fetch with the headers the API function sets: Accept and Content-Type
fetch(fn, current) == Outcome(fn, "request", NoHeader, current)

InitAuth ==
  /\ SimulatorUnmounted
  /\ AdminIdle
  /\ ChatIdle
  /\ AuthIdle
  /\ SyncIdle

\* supabase.auth.signInWithPassword succeeds
signIn ==
  /\ session = NoSession
  /\ session' \in Tokens
  /\ UNCHANGED <<pendingCalls, lastOutcome>>
  /\ UNCHANGED <<simVars, uiVars, adminVars, chatVars, syncVars>>

\* Supabase replaces the access token of the session
TokenRefreshed ==
  /\ session # NoSession
  /\ session' \in Tokens \ {session}
  /\ UNCHANGED <<pendingCalls, lastOutcome>>
  /\ UNCHANGED <<simVars, uiVars, adminVars, chatVars, syncVars>>

\* logout: supabase.auth.signOut()
logout ==
  /\ session # NoSession
  /\ session' = NoSession
  /\ UNCHANGED <<pendingCalls, lastOutcome>>
  /\ UNCHANGED <<simVars, uiVars, adminVars, chatVars, syncVars>>

\* an API function is called: it sends its request with fetch, or it calls
\* fetchWithAuth, which first awaits requireSession()
CallApi ==
  /\ \E fn \in DOMAIN ApiFunctions :
       IF ApiFunctions[fn].withAuth
       THEN /\ Cardinality(pendingCalls) < MaxPendingCalls
            /\ pendingCalls' = pendingCalls \cup {fn}
            /\ UNCHANGED lastOutcome
       ELSE /\ lastOutcome' = fetch(fn, session)
            /\ UNCHANGED pendingCalls
  /\ UNCHANGED session
  /\ UNCHANGED <<simVars, uiVars, adminVars, chatVars, syncVars>>

\* supabase.auth.getSession() settles and fetchWithAuth goes on
SessionResolved ==
  /\ \E fn \in pendingCalls : \E error \in BOOLEAN :
       /\ lastOutcome' = fetchWithAuth(fn, session, error)
       /\ pendingCalls' = pendingCalls \ {fn}
  /\ UNCHANGED session
  /\ UNCHANGED <<simVars, uiVars, adminVars, chatVars, syncVars>>

NextAuth ==
  \/ signIn
  \/ TokenRefreshed
  \/ logout
  \/ CallApi
  \/ SessionResolved

SpecAuth == InitAuth /\ [][NextAuth]_vars

(***************************************************************************)
(* The chatbot: useChatbot in ChatbotWidget, with the browser's storage.   *)
(* A JSON text is a sequence of characters; of a message it holds the      *)
(* role, the content and isError.                                          *)
(***************************************************************************)
\* the list holds at most MaxMessages messages
MaxMessages == 4
\* at most MaxChatInFlight requests are in flight
MaxChatInFlight == 2

Quote == "'"

Message(role, content, isError) == [role |-> role, content |-> content, isError |-> isError]

MessageText(m) ==
  <<"{", IF m.role = "user" THEN "u" ELSE "a", Quote>> \o m.content
    \o <<Quote, IF m.isError THEN "t" ELSE "f", "}">>

RECURSIVE JoinItems(_)
JoinItems(list) ==
  IF list = <<>> THEN <<>>
  ELSE IF Len(list) = 1 THEN MessageText(list[1])
  ELSE MessageText(list[1]) \o <<",">> \o JoinItems(Tail(list))

\* JSON.stringify(messages)
Stringify(list) == <<"[">> \o JoinItems(list) \o <<"]">>

ParseFailed == [ok |-> FALSE, value |-> <<>>]

\* the index of the first Quote of s after position 3, 0 when there is none
ClosingQuote(s) ==
  IF \E q \in 4..Len(s) : s[q] = Quote
  THEN CHOOSE q \in 4..Len(s) : s[q] = Quote /\ \A k \in 4..(q - 1) : s[k] # Quote
  ELSE 0

\* s starts with the text of one message whose content ends at position q
ItemAt(s, q) ==
  /\ q # 0
  /\ Len(s) >= q + 2
  /\ s[1] = "{"
  /\ s[2] \in {"u", "a"}
  /\ s[3] = Quote
  /\ s[q + 1] \in {"t", "f"}
  /\ s[q + 2] = "}"

ItemOf(s, q) ==
  Message(IF s[2] = "u" THEN "user" ELSE "assistant", SubSeq(s, 4, q - 1), s[q + 1] = "t")

RECURSIVE ParseItems(_)
ParseRest(item, rest) ==
  IF rest = <<>> THEN [ok |-> TRUE, value |-> <<item>>]
  ELSE IF Head(rest) = "," /\ Len(rest) > 1 /\ ParseItems(Tail(rest)).ok
  THEN [ok |-> TRUE, value |-> <<item>> \o ParseItems(Tail(rest)).value]
  ELSE ParseFailed

ParseItems(s) ==
  IF ItemAt(s, ClosingQuote(s))
  THEN ParseRest(ItemOf(s, ClosingQuote(s)), Drop(s, ClosingQuote(s) + 2))
  ELSE ParseFailed

\* JSON.parse of the text of a list of messages; ok is FALSE where it throws
ParseMessages(text) ==
  IF Len(text) < 2 \/ text[1] # "[" \/ text[Len(text)] # "]" THEN ParseFailed
  ELSE IF Len(text) = 2 THEN [ok |-> TRUE, value |-> <<>>]
  ELSE ParseItems(SubSeq(text, 2, Len(text) - 1))

\* loadMessages of the stored item
loadMessages(stored) ==
  IF stored = <<>> THEN <<>>
  ELSE IF ParseMessages(stored).ok THEN ParseMessages(stored).value
  ELSE <<>>

\* the item after the effect on [messages] has called saveMessages
saveMessages(list) == Stringify(list)

\* toHistory without its filter
toHistory_KeepsErrors(list) ==
  MapSeq(LAMBDA m : [role |-> m.role, content |-> m.content], list)

\* toHistory
toHistory(list) ==
  MapSeq(LAMBDA m : [role |-> m.role, content |-> m.content],
         SelectSeq(list, LAMBDA m : ~m.isError))

\* the texts the user submits, the answer of the backend and the message of
\* a failure
RawQueries == {<<>>, <<" ">>, <<" ", "h", "i", " ">>, <<"s", "i">>}

ResponseTexts == {<<"o", "k">>}

ErrorTexts == {<<"n", "o">>}

\* what is found under the key when something else has written it
ForeignTexts == {<<>>, <<"[", "{">>, <<"x">>}

InitChat ==
  /\ SimulatorUnmounted
  /\ AdminIdle
  /\ AuthIdle
  /\ ChatIdle
  /\ SyncIdle

\* ChatbotWidget mounted with no message list to start from
ChatMount_StartsEmpty ==
  /\ ~chatMounted
  /\ chatMounted' = TRUE
  /\ messages' = <<>>
  /\ sessionItem' = saveMessages(messages')
  /\ chatStatus' = "idle"
  /\ chatRequest' = Null
  /\ lastSend' = NoSend
  /\ UNCHANGED <<localItem, chatInFlight>>
  /\ UNCHANGED <<simVars, uiVars, adminVars, authVars, syncVars>>

\* ChatbotWidget is mounted: useState(loadMessages), then the effect on
\* [messages] after the first render
ChatMount ==
  /\ ~chatMounted
  /\ chatMounted' = TRUE
  /\ messages' = loadMessages(sessionItem)
  /\ sessionItem' = saveMessages(messages')
  /\ chatStatus' = "idle"
  /\ chatRequest' = Null
  /\ lastSend' = NoSend
  /\ UNCHANGED <<localItem, chatInFlight>>
  /\ UNCHANGED <<simVars, uiVars, adminVars, authVars, syncVars>>

\* the widget is closed: the hook's state is gone, the request of a pending
\* mutation stays in flight and its callbacks update nothing
ChatUnmount ==
  /\ chatMounted
  /\ chatMounted' = FALSE
  /\ messages' = <<>>
  /\ chatStatus' = "idle"
  /\ chatRequest' = Null
  /\ lastSend' = NoSend
  /\ UNCHANGED <<sessionItem, localItem, chatInFlight>>
  /\ UNCHANGED <<simVars, uiVars, adminVars, authVars, syncVars>>

\* the page is reloaded: the widget starts closed (useState(false) of
\* isChatOpen), the requests in flight are dropped, sessionStorage is kept
PageReload ==
  /\ chatMounted' = FALSE
  /\ messages' = <<>>
  /\ chatStatus' = "idle"
  /\ chatRequest' = Null
  /\ chatInFlight' = 0
  /\ lastSend' = NoSend
  /\ UNCHANGED <<sessionItem, localItem>>
  /\ UNCHANGED <<simVars, uiVars, adminVars, authVars, syncVars>>

\* handleSubmit calls sendMessage(inputValue); the effect on [messages] follows
sendMessage ==
  /\ chatMounted
  /\ Len(messages) < MaxMessages
  /\ chatInFlight < MaxChatInFlight
  /\ \E rawQuery \in RawQueries :
       IF Trim(rawQuery) = <<>> \/ chatStatus = "pending"
       THEN /\ lastSend' = Send(rawQuery, FALSE)
            /\ UNCHANGED <<messages, chatStatus, chatRequest, sessionItem, chatInFlight>>
       ELSE /\ messages' = Append(messages, Message("user", Trim(rawQuery), FALSE))
            /\ chatRequest' = [query |-> Trim(rawQuery), history |-> toHistory(messages)]
            /\ chatStatus' = "pending"
            /\ chatInFlight' = chatInFlight + 1
            /\ sessionItem' = saveMessages(messages')
            /\ lastSend' = Send(rawQuery, TRUE)
  /\ UNCHANGED <<chatMounted, localItem>>
  /\ UNCHANGED <<simVars, uiVars, adminVars, authVars, syncVars>>

\* onSuccess of the mutation
ChatResponse ==
  /\ chatMounted
  /\ chatStatus = "pending"
  /\ \E text \in ResponseTexts : messages' = Append(messages, Message("assistant", text, FALSE))
  /\ chatStatus' = "success"
  /\ chatRequest' = Null
  /\ chatInFlight' = chatInFlight - 1
  /\ sessionItem' = saveMessages(messages')
  /\ lastSend' = NoSend
  /\ UNCHANGED <<chatMounted, localItem>>
  /\ UNCHANGED <<simVars, uiVars, adminVars, authVars, syncVars>>

\* onError of the mutation
ChatError ==
  /\ chatMounted
  /\ chatStatus = "pending"
  /\ \E text \in ErrorTexts : messages' = Append(messages, Message("assistant", text, TRUE))
  /\ chatStatus' = "error"
  /\ chatRequest' = Null
  /\ chatInFlight' = chatInFlight - 1
  /\ sessionItem' = saveMessages(messages')
  /\ lastSend' = NoSend
  /\ UNCHANGED <<chatMounted, localItem>>
  /\ UNCHANGED <<simVars, uiVars, adminVars, authVars, syncVars>>

\* a request whose hook was unmounted settles: setMessages of the unmounted
\* hook appends nothing
OrphanSettled ==
  /\ chatInFlight > (IF chatStatus = "pending" THEN 1 ELSE 0)
  /\ chatInFlight' = chatInFlight - 1
  /\ lastSend' = NoSend
  /\ UNCHANGED <<messages, chatMounted, chatStatus, chatRequest, sessionItem, localItem>>
  /\ UNCHANGED <<simVars, uiVars, adminVars, authVars, syncVars>>

\* clearChat, behind the button that is disabled unless canReset; the
\* effect on [messages] stores the empty list after removeItem
clearChat ==
  /\ chatMounted
  /\ Len(messages) > 0 /\ chatStatus # "pending"
  /\ messages' = <<>>
  /\ chatStatus' = "idle"
  /\ chatRequest' = Null
  /\ sessionItem' = saveMessages(messages')
  /\ lastSend' = NoSend
  /\ UNCHANGED <<chatMounted, localItem, chatInFlight>>
  /\ UNCHANGED <<simVars, uiVars, adminVars, authVars, syncVars>>

\* while no widget is mounted the item is removed or overwritten by
\* something else
StorageOverwritten ==
  /\ ~chatMounted
  /\ sessionItem' \in ForeignTexts
  /\ lastSend' = NoSend
  /\ UNCHANGED <<messages, chatMounted, chatStatus, chatRequest, localItem, chatInFlight>>
  /\ UNCHANGED <<simVars, uiVars, adminVars, authVars, syncVars>>

NextChat ==
  \/ ChatMount
  \/ ChatUnmount
  \/ PageReload
  \/ sendMessage
  \/ ChatResponse
  \/ ChatError
  \/ OrphanSettled
  \/ clearChat
  \/ StorageOverwritten

SpecChat == InitChat /\ [][NextChat]_vars

(***************************************************************************)
(* The render / effect cycle that keeps a local list in step with the      *)
(* list of a server query: ClientTable with useClients(serverClients ?? []) *)
(* and AdminPage with useSimulatorConfigs(remoteSimulatorConfigs = []).    *)
(* React compares arrays, as effect dependencies and as states, by          *)
(* reference (Object.is).                                                  *)
(***************************************************************************)
\* the arrays a query delivers and the arrays a render creates by `?? []`
\* or `= []`
DataRefs == {"data1", "data2"}

EmptyRefs == {"empty1", "empty2", "empty3"}

\* the ids of the configurations of an array, the active one first
IdsOf(ref) ==
  IF ref = "data1" THEN <<1>> ELSE IF ref = "data2" THEN <<2, 1>> ELSE <<>>

\* a new array: one that is neither the last dependency nor the state
FreshRef(c) == CHOOSE r \in EmptyRefs : r # propRef[c] /\ r # stateRef[c]

\* serverClients ?? [] and data: remoteSimulatorConfigs = []
ParamRef(c) == IF dataRef[c] # NoData THEN dataRef[c] ELSE FreshRef(c)

\* activeBackendConfigId, and useState(defaultSelectionId ?? initialConfigs[0]?.id ?? null)
FirstId(ref) == IF IdsOf(ref) # <<>> THEN IdsOf(ref)[1] ELSE NoId

\* the updater of the effect on [initialConfigs, defaultSelectionId]
NextSelectedId(prev, ref) ==
  IF prev # NoId /\ \E i \in 1..Len(IdsOf(ref)) : IdsOf(ref)[i] = prev THEN prev
  ELSE FirstId(ref)

InitSync ==
  /\ SimulatorUnmounted
  /\ AdminIdle
  /\ AuthIdle
  /\ ChatIdle
  /\ SyncIdle

\* the mounts, unmounts, refetches and unrelated state updates are at most
\* MaxSyncEvents
MaxSyncEvents == 4

\* AdminPage renders ClientTable in its clients tab
Children(c) == IF c = "AdminPage" THEN {"ClientTable"} ELSE {}

ParentMounted(c) == c = "AdminPage" \/ syncMounted["AdminPage"]

\* the component mounts: first render, useState(initial list); a query
\* without data starts fetching, its effects are due
SyncMount(c) ==
  /\ ~syncMounted[c]
  /\ ParentMounted(c)
  /\ syncEvents < MaxSyncEvents
  /\ syncEvents' = syncEvents + 1
  /\ syncMounted' = [syncMounted EXCEPT ![c] = TRUE]
  /\ queryStatus' = [queryStatus EXCEPT ![c] = IF dataRef[c] = NoData THEN "pending" ELSE @]
  /\ propRef' = [propRef EXCEPT ![c] = ParamRef(c)]
  /\ stateRef' = [stateRef EXCEPT ![c] = ParamRef(c)]
  /\ syncSelectedId' = IF c = "AdminPage" THEN FirstId(ParamRef(c)) ELSE syncSelectedId
  /\ renderDue' = [renderDue EXCEPT ![c] = FALSE]
  /\ effectDue' = [effectDue EXCEPT ![c] = TRUE]
  /\ UNCHANGED dataRef
  /\ UNCHANGED <<simVars, uiVars, adminVars, authVars, chatVars>>

\* the component unmounts with its children (another tab, another route);
\* the query cache keeps its data
SyncUnmount(c) ==
  /\ syncMounted[c]
  /\ syncEvents < MaxSyncEvents
  /\ syncEvents' = syncEvents + 1
  /\ syncMounted' = [d \in Components |-> IF d = c \/ d \in Children(c) THEN FALSE ELSE syncMounted[d]]
  /\ propRef' = [d \in Components |-> IF d = c \/ d \in Children(c) THEN NoRef ELSE propRef[d]]
  /\ stateRef' = [d \in Components |-> IF d = c \/ d \in Children(c) THEN NoRef ELSE stateRef[d]]
  /\ syncSelectedId' = IF c = "AdminPage" THEN NoId ELSE syncSelectedId
  /\ renderDue' = [d \in Components |-> IF d = c \/ d \in Children(c) THEN FALSE ELSE renderDue[d]]
  /\ effectDue' = [d \in Components |-> IF d = c \/ d \in Children(c) THEN FALSE ELSE effectDue[d]]
  /\ UNCHANGED <<queryStatus, dataRef>>
  /\ UNCHANGED <<simVars, uiVars, adminVars, authVars, chatVars>>

\* the first fetch of the query settles: with data, or with an error and no
\* data; the observer schedules a render
QuerySettled(c) ==
  /\ syncMounted[c]
  /\ queryStatus[c] = "pending"
  /\ \E outcome \in {"success", "error"} :
       /\ queryStatus' = [queryStatus EXCEPT ![c] = outcome]
       /\ dataRef' = [dataRef EXCEPT ![c] = IF outcome = "success" THEN "data1" ELSE NoData]
  /\ renderDue' = [renderDue EXCEPT ![c] = TRUE]
  /\ UNCHANGED <<syncMounted, propRef, stateRef, syncSelectedId, effectDue, syncEvents>>
  /\ UNCHANGED <<simVars, uiVars, adminVars, authVars, chatVars>>

\* a refetch (invalidateQueries, a stale query refocused) settles: with a
\* changed list, or with an error that keeps the data the query has
QueryRefetched(c) ==
  /\ syncMounted[c]
  /\ queryStatus[c] # "pending"
  /\ syncEvents < MaxSyncEvents
  /\ syncEvents' = syncEvents + 1
  /\ \E outcome \in {"success", "error"} :
       /\ queryStatus' = [queryStatus EXCEPT ![c] = outcome]
       /\ dataRef' = [dataRef EXCEPT ![c] =
            IF outcome = "error" THEN @ ELSE IF @ = "data1" THEN "data2" ELSE "data1"]
  /\ renderDue' = [renderDue EXCEPT ![c] = TRUE]
  /\ UNCHANGED <<syncMounted, propRef, stateRef, syncSelectedId, effectDue>>
  /\ UNCHANGED <<simVars, uiVars, adminVars, authVars, chatVars>>

\* a state update of the component that is not the list's: setActiveTab,
\* setClientSearch, the auth store
Rerendered(c) ==
  /\ syncMounted[c]
  /\ ~renderDue[c]
  /\ syncEvents < MaxSyncEvents
  /\ syncEvents' = syncEvents + 1
  /\ renderDue' = [renderDue EXCEPT ![c] = TRUE]
  /\ UNCHANGED <<syncMounted, queryStatus, dataRef, propRef, stateRef, syncSelectedId,
                 effectDue>>
  /\ UNCHANGED <<simVars, uiVars, adminVars, authVars, chatVars>>

\* a render of the component body: the hook is called with the query's data
\* or with a new empty array, and its effects are due when that array is
\* not the one of the render before; the mounted children render with it
SyncRender(c) ==
  /\ syncMounted[c]
  /\ renderDue[c]
  /\ ~effectDue[c]
  /\ propRef' = [propRef EXCEPT ![c] = ParamRef(c)]
  /\ effectDue' = [effectDue EXCEPT ![c] = (ParamRef(c) # propRef[c])]
  /\ renderDue' =
       [d \in Components |->
          IF d = c THEN FALSE
          ELSE IF d \in Children(c) /\ syncMounted[d] THEN TRUE
          ELSE renderDue[d]]
  /\ UNCHANGED <<syncMounted, queryStatus, dataRef, stateRef, syncSelectedId, syncEvents>>
  /\ UNCHANGED <<simVars, uiVars, adminVars, authVars, chatVars>>

\* the effects on [defaultClients] / [initialConfigs] run: setClients /
\* setSimConfigs with the array passed, and setSelectedConfigId; a state
\* that changes schedules a render
SyncEffect(c) ==
  /\ syncMounted[c]
  /\ effectDue[c]
  /\ stateRef' = [stateRef EXCEPT ![c] = propRef[c]]
  /\ syncSelectedId' =
       IF c = "AdminPage" THEN NextSelectedId(syncSelectedId, propRef[c])
       ELSE syncSelectedId
  /\ renderDue' = [renderDue EXCEPT ![c] =
       @ \/ stateRef[c] # propRef[c] \/ syncSelectedId' # syncSelectedId]
  /\ effectDue' = [effectDue EXCEPT ![c] = FALSE]
  /\ UNCHANGED <<syncMounted, queryStatus, dataRef, propRef, syncEvents>>
  /\ UNCHANGED <<simVars, uiVars, adminVars, authVars, chatVars>>

NextSync ==
  \E c \in Components :
    \/ SyncMount(c)
    \/ SyncUnmount(c)
    \/ QuerySettled(c)
    \/ QueryRefetched(c)
    \/ Rerendered(c)
    \/ SyncRender(c)
    \/ SyncEffect(c)

\* React runs a scheduled render and the effects of a committed render
SpecSync ==
  /\ InitSync
  /\ [][NextSync]_vars
  /\ \A c \in Components : WF_vars(SyncRender(c)) /\ WF_vars(SyncEffect(c))

(***************************************************************************)
(* The inputs of a claim: the principal is amount, the monthly rate in     *)
(* percent is monthlyRate, and termMonths is the number the term denotes.  *)
(***************************************************************************)
Rendered == phase = "rendered"

termInput == NumberOf(term)

TermIs(n) == ~termInput.nan /\ termInput.v = n

TermAtLeastOne == ~termInput.nan /\ termInput.v >= 1

ValidInput == amount > 0 /\ TermAtLeastOne /\ RSign(monthlyRate) >= 0

decimalRate == RDiv(monthlyRate, RInt(100))

\* monthlyPayment * termMonths - principal
TotalInterestOf(pay, n, principal) == RSub(RMul(pay, RInt(n)), RInt(principal))

\* pay = (principal * r) / (1 - (1 + r)^(-n)), with (1 + r)^(-n) the inverse
\* of the n-fold product of 1 + r:  pay * (1 - inverse) = principal * r
SatisfiesAnnuity(pay, principal, r, n) ==
  LET inverse == RDiv(RInt(1), RPowNat(RAdd(RInt(1), r), n))
  IN REq(RMul(pay, RSub(RInt(1), inverse)), RMul(RInt(principal), r))

C2_ZeroRate ==
  (Rendered /\ ValidInput /\ RSign(monthlyRate) = 0)
    => /\ REq(payment, RDiv(RInt(amount), RInt(termInput.v)))
       /\ RSign(TotalInterestOf(payment, termInput.v, amount)) = 0
       /\ (amount = SecondMontoMinimo /\ TermIs(SecondTerm))
            => MathRound(RMul(payment, RInt(100))) = ZOf(20833333)

C2_Witness ==
  /\ Rendered
  /\ amount = SecondMontoMinimo
  /\ TermIs(SecondTerm)
  /\ RSign(monthlyRate) = 0
  /\ MathRound(RMul(payment, RInt(100))) = ZOf(20833333)

NonPositiveTerm == ~termInput.nan /\ termInput.v <= 0

InvalidInput == amount <= 0 \/ RSign(monthlyRate) < 0 \/ NonPositiveTerm

\* C4, as claimed: no payment value is produced for a non-positive principal,
\* a negative monthly rate or a non-positive term (the call is rejected)
C4_Rejected == InvalidInput => payment = Null

\* C4, amended: such a call is not rejected; a payment value is produced, a
\* rate <= 0 giving amount / months, a term of 0 being replaced by 1 month,
\* and a rate > 0 giving the annuity formula at the months used
C4_Tolerated ==
  (Rendered /\ InvalidInput)
    => /\ payment # Null
       /\ termInput.v = 0 => selectedTerm = 1
       /\ termInput.v # 0 => selectedTerm = termInput.v
       /\ RSign(monthlyRate) <= 0
            => REq(payment, RDiv(RInt(amount), RInt(selectedTerm)))
       /\ RSign(monthlyRate) > 0
            => REq(RMul(payment,
                        RSub(RInt(1), MathPow(RAdd(RInt(1), decimalRate), -selectedTerm))),
                   RMul(RInt(amount), decimalRate))

C4_Witness ==
  /\ Rendered
  /\ amount < 0
  /\ RSign(monthlyRate) < 0
  /\ TermIs(0)
  /\ payment # Null

C6_NonNegative == (Rendered /\ ValidInput) => RSign(payment) >= 0

C6_Witness ==
  /\ Rendered
  /\ ValidInput
  /\ REq(monthlyRate, DefaultRate)
  /\ TermIs(SecondTerm)
  /\ RSign(payment) >= 0

Scenario ==
  /\ Rendered
  /\ amount = DefaultMontoMinimo
  /\ REq(monthlyRate, DefaultRate)
  /\ TermIs(FallbackTerm)

\* C10, as claimed: the scenario's payment rounds to 90,258, its total to
\* 1,083,096 and its total interest to 83,096
C10_ClaimedFigures ==
  Scenario
    => /\ roundedPayment = ZOf(90258)
       /\ MathRound(RMul(payment, RInt(FallbackTerm))) = ZOf(1083096)
       /\ MathRound(TotalInterestOf(payment, FallbackTerm, amount)) = ZOf(83096)

\* C10, amended: the scenario's payment rounds to 89,975, its total to
\* 1,079,705 and its total interest to 79,705
C10_ComputedFigures ==
  Scenario
    => /\ roundedPayment = ZOf(89975)
       /\ MathRound(RMul(payment, RInt(FallbackTerm))) = ZOf(1079705)
       /\ MathRound(TotalInterestOf(payment, FallbackTerm, amount)) = ZOf(79705)

C10_Witness == Scenario /\ roundedPayment = ZOf(89975)

\* C11: the UI clamps its inputs: in every state of CreditSimulator (slider
\* moves, manual typing, blur, mode toggles, changes of the props with
\* minAmount <= maxAmount) the amount used by the estimate, which is the
\* amount handleSimulate sends, lies in [minAmount, maxAmount], and the term
\* used is at least 1.
C11_InputsClamped ==
  Rendered =>
    /\ minAmount <= amount
    /\ amount <= maxAmount
    /\ selectedTerm >= 1

\* the configuration of the preview was saved from the form with a rate text
\* that is a number
SavedWithRate ==
  /\ Rendered
  /\ selectedConfig # Null
  /\ enteredRate[selectedConfig.id] # <<>>
  /\ ~ParseFloat(enteredRate[selectedConfig.id][1]).nan

\* the percentage the admin typed for the configuration of the preview
EnteredPercent == ParseFloat(enteredRate[selectedConfig.id][1]).v

\* C12: for a configuration the admin saved with an entered rate of p
\* percent, the preview simulator computes its estimate with the monthly
\* rate p percent, the value the admin typed.
C12_PreviewUsesEnteredRate ==
  SavedWithRate =>
    /\ REq(monthlyRate, EnteredPercent)
    /\ REq(payment, estimatedPayment(amount, selectedTerm, EnteredPercent))

\* C13: the 'Resultado oficial' block is displayed only while the current
\* amount and term equal those sent in the request that produced the result:
\* not after a change of amount or term, a failed request or with a newer
\* request in flight; and the local estimate is the locally computed one,
\* whatever the remote result says.
C13_OfficialResultCurrent ==
  (Rendered /\ activeSimulationResult # Null) =>
    /\ simStatus = "success"
    /\ activeSimulationResult.amountRequested = amount
    /\ activeSimulationResult.termMonths = selectedTerm
    /\ REq(payment, estimatedPayment(amount, selectedTerm, monthlyRate))

\* an official result is on display whose payment differs from the local
\* estimate next to it
C13_Witness ==
  /\ Rendered
  /\ activeSimulationResult # Null
  /\ ~REq(activeSimulationResult.monthlyPayment, payment)

\* C14: the estimate retains no state: in every state the estimated payment
\* is the value of estimatedPayment at the current amount, selected term and
\* monthly rate, so two states with equal inputs show equal payments
\* whatever happened before.
C14_NoRetainedState ==
  Rendered =>
    /\ REq(payment, estimatedPayment(amount, selectedTerm, monthlyRate))
    /\ roundedPayment = MathRound(OrZero(payment))

\* a state with a history: a remote result for other inputs has arrived and
\* the manual input was used
C14_Witness ==
  /\ Rendered
  /\ simData # Null
  /\ lastSimulatedKey # currentSimulationKey
  /\ mode = "input"
  /\ RSign(payment) > 0

\* the routers that require a valid session, and the protected listing of
\* the loan applications
ProtectedRouters == {"clients", "credits", "documents", "simulator", "rag"}

IsProtected(fn) ==
  \/ ApiFunctions[fn].router \in ProtectedRouters
  \/ fn = "fetchLoanApplications"

\* C15: every request the frontend issues to a protected router (clients,
\* credits, documents, simulator, loan-application listing, RAG documents)
\* carries Authorization: Bearer <access token of the current session>; no
\* such request is sent without a token.
C15_ProtectedCarryToken ==
  (lastOutcome.kind = "request" /\ IsProtected(lastOutcome.fn)) =>
    /\ lastOutcome.session # NoSession
    /\ lastOutcome.authorization = Bearer(lastOutcome.session)

\* loan applications: the intake form's POST and the admin's listing
IsCreate == lastOutcome.fn = "createLoanApplication"

IsListing == lastOutcome.fn = "fetchLoanApplications"

\* C16: creating a loan application is public: it is sent whether or not a
\* session exists and never fails for lack of one; listing the loan
\* applications is protected: it is sent only with the session's token and
\* fails without a request when there is no session.
C16_PublicCreateProtectedList ==
  /\ IsCreate => lastOutcome.kind = "request"
  /\ (IsListing /\ lastOutcome.kind = "request") =>
        /\ lastOutcome.session # NoSession
        /\ lastOutcome.authorization = Bearer(lastOutcome.session)
  /\ (IsListing /\ lastOutcome.session = NoSession) => lastOutcome.kind = "threw"

\* the listing was attempted without a session and no request went out
C16_Witness ==
  /\ IsListing
  /\ lastOutcome.session = NoSession
  /\ lastOutcome.kind = "threw"

\* C17, as claimed: after the persistence effect the history stored in
\* local storage under 'krediplus_chat_history' equals the in-memory list.
C17_LocalStoragePersisted ==
  chatMounted => localItem = Stringify(messages)

\* C17: the history is persisted to session storage: after the persistence
\* effect the item stored under 'krediplus_chat_history' is the text of the
\* in-memory list and reads back as that list, and a mount of useChatbot
\* starts from exactly the stored list, the empty list when nothing or
\* malformed JSON is stored.
C17_SessionStoragePersisted ==
  /\ [](chatMounted =>
          /\ sessionItem = Stringify(messages)
          /\ loadMessages(sessionItem) = messages
          /\ localItem = <<>>)
  /\ [][(~chatMounted /\ chatMounted') =>
          messages' = IF sessionItem = <<>> \/ ~ParseMessages(sessionItem).ok THEN <<>>
                      ELSE ParseMessages(sessionItem).value]_vars

\* a widget mounted from a stored history with an answer and an error
C17_Witness ==
  /\ chatMounted
  /\ chatStatus = "idle"
  /\ Len(messages) = MaxMessages
  /\ \E i \in 1..Len(messages) : messages[i].isError
  /\ sessionItem = Stringify(messages)

CountRole(role) == Cardinality({i \in 1..Len(messages) : messages[i].role = role})

\* C20: in every state of useChatbot the message list alternates user,
\* assistant, user, ... starting with a user message, with exactly one more
\* user message than assistant messages while a request is pending and
\* equally many otherwise.
C20_Alternates ==
  chatMounted =>
    /\ \A i \in 1..Len(messages) :
          messages[i].role = IF i % 2 = 1 THEN "user" ELSE "assistant"
    /\ CountRole("user") =
          CountRole("assistant") + (IF chatStatus = "pending" THEN 1 ELSE 0)

\* C19: a configuration that is marked active is never submitted for
\* deletion: the id passed to the delete mutation belongs to a configuration
\* that was not active in the local list when confirmDeleteConfig ran.
C19_ActiveNeverDeleted ==
  \A request \in requests : request.kind = "delete" => ~request.active

\* C18, as claimed: for every rate r > 0, termMonths >= 1 and principal > 0
\* the branch returning 0 is never taken: the payment is never 0.
C18_GuardUnreachable ==
  (phase = "rendered" /\ RSign(monthlyRate) > 0 /\ selectedTerm >= 1 /\ amount > 0) =>
    RSign(payment) # 0

\* C18: for a rate r > 0, termMonths >= 1 and principal > 0 the branch
\* returning 0 is taken exactly when r <= 2 ^ -53, where 1 + r evaluates to
\* 1; for every larger rate the denominator is strictly positive and so is
\* the payment.
C18_GuardOnlyWhenAbsorbed ==
  (phase = "rendered" /\ RSign(monthlyRate) > 0 /\ selectedTerm >= 1 /\ amount > 0) =>
    IF RLe(RDiv(monthlyRate, RInt(100)), HalfEpsilon)
    THEN RSign(payment) = 0
    ELSE /\ RSign(payment) > 0
         /\ RSign(RSub(RInt(1),
                       MathPow(RAdd(RInt(1), RDiv(monthlyRate, RInt(100))), -selectedTerm))) > 0

\* a payment rendered for the smallest rate of the model above 2 ^ -53
C18_Witness ==
  /\ phase = "rendered"
  /\ REq(monthlyRate, TinyRateOf(3))
  /\ selectedTerm = FallbackTerm
  /\ amount > 0
  /\ RSign(payment) > 0

\* C21: at most one chat request is in flight at any time: sendMessage
\* returns false and leaves the message list, the stored history and the
\* pending request unchanged when the query is empty after trimming or a
\* request is already pending; otherwise it returns true, appends exactly
\* one user message holding the trimmed query and starts exactly one request.
C21_OneRequestInFlight ==
  /\ [](chatInFlight <= 1)
  /\ [][lastSend'.called =>
          IF Trim(lastSend'.rawQuery) = <<>> \/ chatStatus = "pending"
          THEN /\ ~lastSend'.returned
               /\ UNCHANGED <<messages, sessionItem, chatStatus, chatRequest, chatInFlight>>
          ELSE /\ lastSend'.returned
               /\ messages' =
                    Append(messages, Message("user", Trim(lastSend'.rawQuery), FALSE))
               /\ chatStatus' = "pending"
               /\ chatRequest'.query = Trim(lastSend'.rawQuery)
               /\ chatInFlight' = chatInFlight + 1]_vars

\* the role and content of the messages of a list that are not errors
RECURSIVE NonErrorEntries(_)
NonErrorEntries(list) ==
  IF list = <<>> THEN <<>>
  ELSE (IF Head(list).isError THEN <<>>
        ELSE <<[role |-> Head(list).role, content |-> Head(list).content]>>)
       \o NonErrorEntries(Tail(list))

Quiescent(c) == ~renderDue[c] /\ ~effectDue[c]

\* C23: synchronising the local list with the server list quiesces: in
\* every state of the server query (loading with no data, error with no
\* data, loaded) the render / effect cycle of ClientTable with useClients
\* and of AdminPage with useSimulatorConfigs reaches a state in which no
\* effect issues a further state update.
C23_SyncQuiesces ==
  \A c \in Components : [](syncMounted[c] => <>Quiescent(c))

\* the step leaves the backend holding the result of the request: the
\* created configuration under a new id, the updated fields, the activated
\* configuration, or no configuration of the deleted id
ServerApplied(request) ==
  CASE request.kind = "create" ->
         /\ backendLastId' = backendLastId + 1
         /\ FindById(backendConfigs', backendLastId') # Null
    [] request.kind = "update" ->
         /\ FindById(backendConfigs, request.id) # Null
         /\ FindById(backendConfigs', request.id) =
              UpdateConfigEndpoint(FindById(backendConfigs, request.id), request.payload)
    [] request.kind = "activate" ->
         /\ FindById(backendConfigs', request.id) # Null
         /\ FindById(backendConfigs', request.id).is_active
    [] request.kind = "delete" ->
         /\ FindById(backendConfigs, request.id) # Null
         /\ FindById(backendConfigs', request.id) = Null

\* C24: a create, update, activate or delete that is answered without the
\* server having applied it leaves the local list, both dialogs and the form
\* as they are; so an answer closes the create/edit dialog or changes the
\* list only when the server reports success.
C24_FailureKeepsState ==
  [][\A request \in requests :
       requests' = requests \ {request} /\ ~ServerApplied(request)
         => UNCHANGED <<simConfigs, dialogOpen, dialogMode, activeSimConfig, configForm,
                        deleteDialogOpen, configPendingDelete>>]_vars

\* the one create submitted from the form has failed: the dialog is open
\* with the text typed, the backend has created nothing
C24_Witness ==
  /\ dialogOpen
  /\ dialogMode = "create"
  /\ configForm.tasaInteresMensual # <<>>
  /\ saved = 1
  /\ requests = {}
  /\ backendLastId = 1
  /\ simConfigs = <<>>

=============================================================================
